---- MODULE Spec2Model ----
(***************************************************************************)
(* Apollo.io -> Bigin integration: the token manager (refreshBiginToken),  *)
(* the upsert engine (createBiginContact) and the bulk sync loop           *)
(* (POST /api/sync/contacts/bulk), as a state machine over the module      *)
(* state of integration.js and the records held by the Bigin destination.  *)
(*                                                                         *)
(* Node runs one callback at a time, so every action is the code between   *)
(* two suspension points: from the start of a call, or the arrival of a    *)
(* response, up to the next network request that is awaited.  A request is *)
(* served by the destination at the moment its response action fires.      *)
(***************************************************************************)
EXTENDS Integers, Sequences, FiniteSets, TLC

\* ---------------------------------------------------------------- bounds
NCallers == 2          \* calls of createBiginContact and refreshBiginToken in Spec
NTokenCallers == 3     \* calls of refreshBiginToken in SpecToken
MaxTicks == 2          \* how often the clock advances in SpecToken
MaxRecords == 12       \* longest contacts list of a bulk request
NUpsertCallers == 1    \* calls of createBiginContact in SpecUpsert
NCacheCallers == 2     \* calls of getBiginContacts in SpecCache
NStaleCallers == 3     \* calls of getBiginContacts in SpecStale
MaxCacheTicks == 1     \* how often the clock advances in SpecCache
MaxStaleTicks == 2     \* how often the clock advances in SpecStale
NSyncCallers == 2      \* calls made beside the bulk request in SpecSync
NSyncRecords == 1      \* longest contacts list of the bulk request in SpecSync
MaxSyncTicks == 1      \* how often the clock advances in SpecSync
NAccountCallers == 2   \* calls of getBiginAccounts and createBiginAccount in SpecAccounts
MaxAccountRequests == 4 \* requests one of these calls sends before the model stops following it
CacheTickMs == 60000   \* short clock step of these two, in ms; the long one is 4 times it
TickMs == 30000        \* clock step, in ms
StartTime == 600000    \* Date.now() when the process starts, in ms

\* ------------------------------------------------------- program constants
RATE_LIMIT_COOLDOWN == 60000
SAFETY_MARGIN == 5 * 60 * 1000
DEFAULT_EXPIRES_IN == 3600
batchSize == 5
batchDelay == 2000
CACHE_LIFETIME == 5 * 60 * 1000

NoToken == 0           \* biginAccessToken = null
EnvToken == 1          \* process.env.BIGIN_ACCESS_TOKEN
NoExpiry == 0          \* biginTokenExpiry = null
NoId == 0              \* accountId = null, no id in a result

\* The token the auth endpoint issues for the refresh call of task t.
IssuedToken(t) == 10 + t
\* The ids the destination assigns to the records created by task t's requests.
NewAccountId(t) == 200 + t
NewContactId(t) == 100 + t

\* expires_in values of a token response, in seconds (0: the field is absent).
ExpiresInSet == {0, 330}

Max(a, b) == IF a > b THEN a ELSE b
Min(a, b) == IF a < b THEN a ELSE b

Tasks == 1 .. Max(Max(Max(NCallers, NTokenCallers), Max(NUpsertCallers, NCacheCallers)),
                  Max(NStaleCallers, MaxRecords))
Callers == 1 .. NCallers
UpsertCallers == 1 .. NUpsertCallers
CacheCallers == 1 .. NCacheCallers
StaleCallers == 1 .. NStaleCallers
TokenCallers == 1 .. NTokenCallers

\* ---------------------------------------------------------- error values
MsgRateLimit == "Rate limit protection active. Please try again soon."
MsgNoCredentials == "Bigin credentials not found. Please check your .env file."
MsgRefreshFailed == "Failed to refresh Bigin access token"
MsgCreateFailed == "Failed to create contact in Bigin"
MsgNetwork == "Network Error"
MsgHttp401 == "Request failed with status code 401"
MsgHttp500 == "Request failed with status code 500"
MsgHttp400 == "Request failed with status code 400"

\* An Error as the code sees it: message, and error.response.status (0: none).
Err(msg, status) == [message |-> msg, status |-> status]
NoErr == Err("", 0)

\* Error payloads of the auth endpoint: {error, error_description}.
ThrottlePayload ==
    [error |-> "Access Denied",
     error_description |->
        "You have made too many requests continuously. Please try again after some time."]
InvalidPayload == [error |-> "invalid_code", error_description |-> ""]
OtherPayload == [error |-> "", error_description |-> ""]

\* error_description.includes('too many requests'), over the payloads above.
IncludesTooManyRequests(d) ==
    d \in {"You have made too many requests continuously. Please try again after some time."}

IsRateLimitPayload(p) ==
    /\ p.error = "Access Denied"
    /\ p.error_description # ""
    /\ IncludesTooManyRequests(p.error_description)

\* errorData.error_description || errorData.error || error.message
PayloadMessage(p, msg) ==
    IF p.error_description # "" THEN p.error_description
    ELSE IF p.error # "" THEN p.error
    ELSE msg

\* The characters of the messages the errors of this program carry.
Chars(msg) ==
    CASE msg = "" -> << >>
      [] msg = MsgRateLimit ->
            <<"R", "a", "t", "e", " ", "l", "i", "m", "i", "t", " ", "p", "r", "o",
              "t", "e", "c", "t", "i", "o", "n", " ", "a", "c", "t", "i", "v", "e",
              ".", " ", "P", "l", "e", "a", "s", "e", " ", "t", "r", "y", " ", "a",
              "g", "a", "i", "n", " ", "s", "o", "o", "n", ".">>
      [] msg = MsgNoCredentials ->
            <<"B", "i", "g", "i", "n", " ", "c", "r", "e", "d", "e", "n", "t", "i",
              "a", "l", "s", " ", "n", "o", "t", " ", "f", "o", "u", "n", "d", ".",
              " ", "P", "l", "e", "a", "s", "e", " ", "c", "h", "e", "c", "k", " ",
              "y", "o", "u", "r", " ", ".", "e", "n", "v", " ", "f", "i", "l", "e",
              ".">>
      [] msg = MsgRefreshFailed ->
            <<"F", "a", "i", "l", "e", "d", " ", "t", "o", " ", "r", "e", "f", "r",
              "e", "s", "h", " ", "B", "i", "g", "i", "n", " ", "a", "c", "c", "e",
              "s", "s", " ", "t", "o", "k", "e", "n">>
      [] msg = MsgCreateFailed ->
            <<"F", "a", "i", "l", "e", "d", " ", "t", "o", " ", "c", "r", "e", "a",
              "t", "e", " ", "c", "o", "n", "t", "a", "c", "t", " ", "i", "n", " ",
              "B", "i", "g", "i", "n">>
      [] msg = MsgNetwork ->
            <<"N", "e", "t", "w", "o", "r", "k", " ", "E", "r", "r", "o", "r">>
      [] msg = MsgHttp401 ->
            <<"R", "e", "q", "u", "e", "s", "t", " ", "f", "a", "i", "l", "e", "d",
              " ", "w", "i", "t", "h", " ", "s", "t", "a", "t", "u", "s", " ", "c",
              "o", "d", "e", " ", "4", "0", "1">>
      [] msg = MsgHttp500 ->
            <<"R", "e", "q", "u", "e", "s", "t", " ", "f", "a", "i", "l", "e", "d",
              " ", "w", "i", "t", "h", " ", "s", "t", "a", "t", "u", "s", " ", "c",
              "o", "d", "e", " ", "5", "0", "0">>
      [] msg = MsgHttp400 ->
            <<"R", "e", "q", "u", "e", "s", "t", " ", "f", "a", "i", "l", "e", "d",
              " ", "w", "i", "t", "h", " ", "s", "t", "a", "t", "u", "s", " ", "c",
              "o", "d", "e", " ", "4", "0", "0">>
      [] msg = ThrottlePayload.error_description ->
            <<"Y", "o", "u", " ", "h", "a", "v", "e", " ", "m", "a", "d", "e", " ",
              "t", "o", "o", " ", "m", "a", "n", "y", " ", "r", "e", "q", "u", "e",
              "s", "t", "s", " ", "c", "o", "n", "t", "i", "n", "u", "o", "u", "s",
              "l", "y", ".", " ", "P", "l", "e", "a", "s", "e", " ", "t", "r", "y",
              " ", "a", "g", "a", "i", "n", " ", "a", "f", "t", "e", "r", " ", "s",
              "o", "m", "e", " ", "t", "i", "m", "e", ".">>
      [] msg = InvalidPayload.error ->
            <<"i", "n", "v", "a", "l", "i", "d", "_", "c", "o", "d", "e">>

\* hay.includes(needle), over strings as sequences of characters
Includes(hay, needle) ==
    \E k \in 0 .. (Len(hay) - Len(needle)) : SubSeq(hay, k + 1, k + Len(needle)) = needle

\* The catch of a request handler (server.js lines 269-284, 342-357, 382-397): the
\* status it answers with for error.
ErrorStatus(error) ==
    IF error.message # ""
       /\ Includes(Chars(error.message), <<"r", "a", "t", "e", " ", "l", "i", "m", "i", "t">>)
    THEN 429
    ELSE 500

\* Responses of the auth endpoint to one refresh call.
AuthRespKinds == {"ok", "notoken", "throttle", "invalid", "other", "network"}
\* Responses of the destination record API.
SearchRespKinds == {"ok", "e400", "e401", "e500"}
WriteRespKinds == {"ok", "nodata", "e400", "e401", "e500"}
ListRespKinds == {"ok", "nodata", "e400", "e401", "e500"}
AccountRespKinds == {"ok", "e400", "e401", "e500"}

HttpError(r) ==
    IF r = "e401" THEN Err(MsgHttp401, 401)
    ELSE IF r = "e400" THEN Err(MsgHttp400, 400)
    ELSE Err(MsgHttp500, 500)

\* ------------------------------------------------------------ field mapper
NoAccountRef == [tag |-> "none", name |-> "", id |-> NoId]
AccountByName(n) == [tag |-> "name", name |-> n, id |-> NoId]
AccountById(a) == [tag |-> "id", name |-> "", id |-> a]

\* The Apollo contacts a caller syncs: with an email, a company, or both.
SourceContacts ==
    {c \in [id : {1}, email : {"", "john@acme.com"}, organization_name : {"", "Acme"}] :
        c.email # "" \/ c.organization_name # ""}

NoSource == [id |-> 0, email |-> "", organization_name |-> ""]

\* mapApolloContactToBigin: the fields the upsert engine reads.
mapApolloContactToBigin(src) ==
    [Email |-> src.email,
     Account_Name |-> IF src.organization_name # ""
                      THEN AccountByName(src.organization_name)
                      ELSE NoAccountRef]

NoContactData == [Email |-> "", Account_Name |-> NoAccountRef]

\* ------------------------------------------------------------ field mapper, in full
\* A string is its sequence of characters.  An Apollo contact is a function from the
\* names of the fields it has to their values; so is a Bigin contact.

UpperCase == <<"A", "B", "C", "D", "E", "F", "G", "H", "I", "J", "K", "L", "M", "N", "O", "P", "Q", "R", "S", "T", "U", "V", "W", "X", "Y", "Z">>
LowerCase == <<"a", "b", "c", "d", "e", "f", "g", "h", "i", "j", "k", "l", "m", "n", "o", "p", "q", "r", "s", "t", "u", "v", "w", "x", "y", "z">>
Characters ==
    {UpperCase[k] : k \in 1 .. 26} \cup {LowerCase[k] : k \in 1 .. 26}
    \cup {" ", "&", "-", "2", "@", ".", "_"}

\* A value is a string: each of its elements is one character.
IsString(v) == \A k \in DOMAIN v : v[k] \in Characters

\* c.toLowerCase(), for one character
LowerChar(c) ==
    IF \E k \in 1 .. 26 : UpperCase[k] = c
    THEN LowerCase[CHOOSE k \in 1 .. 26 : UpperCase[k] = c]
    ELSE c

\* s.toLowerCase()
toLowerCase(s) == [k \in 1 .. Len(s) |-> LowerChar(s[k])]

\* INDUSTRY_MAPPING: its own properties, in the order Object.entries lists them.
INDUSTRY_MAPPING ==
    << <<<<"S", "o", "f", "t", "w", "a", "r", "e">>,
         <<"S", "o", "f", "t", "w", "a", "r", "e">>>>,
       <<<<"T", "e", "c", "h", "n", "o", "l", "o", "g", "y">>,
         <<"T", "e", "c", "h", "n", "o", "l", "o", "g", "y">>>>,
       <<<<"H", "e", "a", "l", "t", "h", "c", "a", "r", "e">>,
         <<"H", "e", "a", "l", "t", "h", "c", "a", "r", "e">>>>,
       <<<<"F", "i", "n", "a", "n", "c", "i", "a", "l", " ", "S", "e", "r", "v", "i", "c", "e", "s">>,
         <<"F", "i", "n", "a", "n", "c", "i", "a", "l", " ", "S", "e", "r", "v", "i", "c", "e", "s">>>>,
       <<<<"R", "e", "t", "a", "i", "l">>,
         <<"R", "e", "t", "a", "i", "l">>>>,
       <<<<"M", "a", "n", "u", "f", "a", "c", "t", "u", "r", "i", "n", "g">>,
         <<"M", "a", "n", "u", "f", "a", "c", "t", "u", "r", "i", "n", "g">>>>,
       <<<<"E", "d", "u", "c", "a", "t", "i", "o", "n">>,
         <<"E", "d", "u", "c", "a", "t", "i", "o", "n">>>>,
       <<<<"T", "e", "l", "e", "c", "o", "m", "m", "u", "n", "i", "c", "a", "t", "i", "o", "n", "s">>,
         <<"T", "e", "l", "e", "c", "o", "m", "m", "u", "n", "i", "c", "a", "t", "i", "o", "n", "s">>>>,
       <<<<"M", "e", "d", "i", "a">>,
         <<"M", "e", "d", "i", "a">>>>,
       <<<<"R", "e", "a", "l", " ", "E", "s", "t", "a", "t", "e">>,
         <<"R", "e", "a", "l", " ", "E", "s", "t", "a", "t", "e">>>>,
       <<<<"T", "r", "a", "n", "s", "p", "o", "r", "t", "a", "t", "i", "o", "n">>,
         <<"T", "r", "a", "n", "s", "p", "o", "r", "t", "a", "t", "i", "o", "n">>>>,
       <<<<"A", "g", "r", "i", "c", "u", "l", "t", "u", "r", "e">>,
         <<"A", "g", "r", "i", "c", "u", "l", "t", "u", "r", "e">>>>,
       <<<<"I", "n", "f", "o", "r", "m", "a", "t", "i", "o", "n", " ", "T", "e", "c", "h", "n", "o", "l", "o", "g", "y">>,
         <<"T", "e", "c", "h", "n", "o", "l", "o", "g", "y">>>>,
       <<<<"I", "T", " ", "S", "e", "r", "v", "i", "c", "e", "s">>,
         <<"T", "e", "c", "h", "n", "o", "l", "o", "g", "y">>>>,
       <<<<"C", "o", "m", "p", "u", "t", "e", "r", " ", "S", "o", "f", "t", "w", "a", "r", "e">>,
         <<"S", "o", "f", "t", "w", "a", "r", "e">>>>,
       <<<<"S", "a", "a", "S">>,
         <<"S", "o", "f", "t", "w", "a", "r", "e">>>>,
       <<<<"I", "n", "t", "e", "r", "n", "e", "t">>,
         <<"T", "e", "c", "h", "n", "o", "l", "o", "g", "y">>>>,
       <<<<"F", "i", "n", "a", "n", "c", "e">>,
         <<"F", "i", "n", "a", "n", "c", "i", "a", "l", " ", "S", "e", "r", "v", "i", "c", "e", "s">>>>,
       <<<<"B", "a", "n", "k", "i", "n", "g">>,
         <<"F", "i", "n", "a", "n", "c", "i", "a", "l", " ", "S", "e", "r", "v", "i", "c", "e", "s">>>>,
       <<<<"I", "n", "s", "u", "r", "a", "n", "c", "e">>,
         <<"F", "i", "n", "a", "n", "c", "i", "a", "l", " ", "S", "e", "r", "v", "i", "c", "e", "s">>>>,
       <<<<"H", "o", "s", "p", "i", "t", "a", "l", " ", "&", " ", "H", "e", "a", "l", "t", "h", " ", "C", "a", "r", "e">>,
         <<"H", "e", "a", "l", "t", "h", "c", "a", "r", "e">>>>,
       <<<<"P", "h", "a", "r", "m", "a", "c", "e", "u", "t", "i", "c", "a", "l", "s">>,
         <<"H", "e", "a", "l", "t", "h", "c", "a", "r", "e">>>>,
       <<<<"M", "e", "d", "i", "c", "a", "l", " ", "D", "e", "v", "i", "c", "e", "s">>,
         <<"H", "e", "a", "l", "t", "h", "c", "a", "r", "e">>>>,
       <<<<"E", "-", "C", "o", "m", "m", "e", "r", "c", "e">>,
         <<"R", "e", "t", "a", "i", "l">>>>,
       <<<<"W", "h", "o", "l", "e", "s", "a", "l", "e">>,
         <<"R", "e", "t", "a", "i", "l">>>>,
       <<<<"C", "o", "n", "s", "t", "r", "u", "c", "t", "i", "o", "n">>,
         <<"C", "o", "n", "s", "t", "r", "u", "c", "t", "i", "o", "n">>>>,
       <<<<"M", "a", "r", "k", "e", "t", "i", "n", "g", " ", "&", " ", "A", "d", "v", "e", "r", "t", "i", "s", "i", "n", "g">>,
         <<"A", "d", "v", "e", "r", "t", "i", "s", "i", "n", "g">>>>,
       <<<<"P", "u", "b", "l", "i", "c", " ", "R", "e", "l", "a", "t", "i", "o", "n", "s">>,
         <<"A", "d", "v", "e", "r", "t", "i", "s", "i", "n", "g">>>>,
       <<<<"E", "n", "t", "e", "r", "t", "a", "i", "n", "m", "e", "n", "t">>,
         <<"M", "e", "d", "i", "a">>>>,
       <<<<"P", "u", "b", "l", "i", "s", "h", "i", "n", "g">>,
         <<"M", "e", "d", "i", "a">>>>,
       <<<<"H", "o", "s", "p", "i", "t", "a", "l", "i", "t", "y">>,
         <<"H", "o", "s", "p", "i", "t", "a", "l", "i", "t", "y">>>>,
       <<<<"F", "o", "o", "d", " ", "&", " ", "B", "e", "v", "e", "r", "a", "g", "e", "s">>,
         <<"H", "o", "s", "p", "i", "t", "a", "l", "i", "t", "y">>>>,
       <<<<"A", "u", "t", "o", "m", "o", "t", "i", "v", "e">>,
         <<"A", "u", "t", "o", "m", "o", "t", "i", "v", "e">>>>,
       <<<<"C", "o", "n", "s", "u", "m", "e", "r", " ", "G", "o", "o", "d", "s">>,
         <<"C", "o", "n", "s", "u", "m", "e", "r", " ", "G", "o", "o", "d", "s">>>>,
       <<<<"N", "o", "n", "-", "P", "r", "o", "f", "i", "t">>,
         <<"N", "o", "n", "-", "P", "r", "o", "f", "i", "t">>>>,
       <<<<"G", "o", "v", "e", "r", "n", "m", "e", "n", "t">>,
         <<"G", "o", "v", "e", "r", "n", "m", "e", "n", "t">>>>,
       <<<<"L", "e", "g", "a", "l", " ", "S", "e", "r", "v", "i", "c", "e", "s">>,
         <<"L", "e", "g", "a", "l">>>>,
       <<<<"P", "r", "o", "f", "e", "s", "s", "i", "o", "n", "a", "l", " ", "S", "e", "r", "v", "i", "c", "e", "s">>,
         <<"P", "r", "o", "f", "e", "s", "s", "i", "o", "n", "a", "l", " ", "S", "e", "r", "v", "i", "c", "e", "s">>>>,
       <<<<"C", "o", "n", "s", "u", "l", "t", "i", "n", "g">>,
         <<"C", "o", "n", "s", "u", "l", "t", "i", "n", "g">>>>,
       <<<<"E", "n", "e", "r", "g", "y">>,
         <<"E", "n", "e", "r", "g", "y", " ", "&", " ", "U", "t", "i", "l", "i", "t", "i", "e", "s">>>>,
       <<<<"U", "t", "i", "l", "i", "t", "i", "e", "s">>,
         <<"E", "n", "e", "r", "g", "y", " ", "&", " ", "U", "t", "i", "l", "i", "t", "i", "e", "s">>>>,
       <<<<"D", "2", "C">>,
         <<"C", "o", "n", "s", "u", "m", "e", "r", " ", "G", "o", "o", "d", "s">>>> >>

\* The properties an object literal inherits from Object.prototype: functions, and the
\* prototype object itself.  None of them is a string.
ObjectPrototype ==
    << <<<<"c", "o", "n", "s", "t", "r", "u", "c", "t", "o", "r">>, <<"function Object">>>>,
       <<<<"t", "o", "S", "t", "r", "i", "n", "g">>, <<"function toString">>>>,
       <<<<"v", "a", "l", "u", "e", "O", "f">>, <<"function valueOf">>>>,
       <<<<"h", "a", "s", "O", "w", "n", "P", "r", "o", "p", "e", "r", "t", "y">>, <<"function hasOwnProperty">>>>,
       <<<<"_", "_", "p", "r", "o", "t", "o", "_", "_">>, <<"object Object.prototype">>>> >>

\* The first entry of table whose key is key (0: none).
RECURSIVE EntryOf(_, _, _)
EntryOf(table, key, k) ==
    IF k > Len(table) THEN 0
    ELSE IF table[k][1] = key THEN k
    ELSE EntryOf(table, key, k + 1)

\* INDUSTRY_MAPPING[key]: an own property, else an inherited one, else undefined (<< >>).
IndustryProperty(key) ==
    IF EntryOf(INDUSTRY_MAPPING, key, 1) # 0
    THEN INDUSTRY_MAPPING[EntryOf(INDUSTRY_MAPPING, key, 1)][2]
    ELSE IF EntryOf(ObjectPrototype, key, 1) # 0
    THEN ObjectPrototype[EntryOf(ObjectPrototype, key, 1)][2]
    ELSE << >>

\* industry.includes(key.toLowerCase()) || key.toLowerCase().includes(industry)
PartialMatch(industry, key) ==
    Includes(industry, toLowerCase(key)) \/ Includes(toLowerCase(key), industry)

\* The for loop of mapIndustry from entry k on (lines 159-166).
RECURSIVE PartialLookup(_, _, _)
PartialLookup(apolloIndustry, industry, k) ==
    IF k > Len(INDUSTRY_MAPPING) THEN apolloIndustry
    ELSE IF PartialMatch(industry, INDUSTRY_MAPPING[k][1]) THEN INDUSTRY_MAPPING[k][2]
    ELSE PartialLookup(apolloIndustry, industry, k + 1)

\* mapIndustry (lines 147-167); an absent industry is the empty string here.
mapIndustry(apolloIndustry) ==
    IF apolloIndustry = << >> THEN << >>
    ELSE IF IndustryProperty(apolloIndustry) # << >> THEN IndustryProperty(apolloIndustry)
    ELSE PartialLookup(apolloIndustry, toLowerCase(apolloIndustry), 1)

\* apolloContact.f is truthy: the field is there and is not the empty string.
Has(apolloContact, f) == f \in DOMAIN apolloContact /\ apolloContact[f] # << >>
\* apolloContact.f || ''
OrEmpty(apolloContact, f) == IF Has(apolloContact, f) THEN apolloContact[f] ELSE << >>

\* The first "@" of s (0: none).
RECURSIVE IndexOfAt(_, _)
IndexOfAt(s, k) ==
    IF k > Len(s) THEN 0 ELSE IF s[k] = "@" THEN k ELSE IndexOfAt(s, k + 1)

\* s.split('@')[0]
SplitAtFirst(s) == IF IndexOfAt(s, 1) = 0 THEN s ELSE SubSeq(s, 1, IndexOfAt(s, 1) - 1)

Unknown == <<"U", "n", "k", "n", "o", "w", "n">>

\* getLastName (lines 174-189)
getLastNameFirstNameFirst(apolloContact) ==
    IF Has(apolloContact, "first_name") THEN apolloContact["first_name"]
    ELSE IF Has(apolloContact, "last_name") THEN apolloContact["last_name"]
    ELSE IF Has(apolloContact, "email")
    THEN IF SplitAtFirst(apolloContact["email"]) # << >>
         THEN SplitAtFirst(apolloContact["email"]) ELSE Unknown
    ELSE Unknown

getLastName(apolloContact) ==
    IF Has(apolloContact, "last_name") THEN apolloContact["last_name"]
    ELSE IF Has(apolloContact, "first_name") THEN apolloContact["first_name"]
    ELSE IF Has(apolloContact, "email")
    THEN IF SplitAtFirst(apolloContact["email"]) # << >>
         THEN SplitAtFirst(apolloContact["email"]) ELSE Unknown
    ELSE Unknown

\* One line of a description: added when the field is truthy.
DescriptionLine(apolloContact, label, f) ==
    IF Has(apolloContact, f) THEN label \o apolloContact[f] \o <<"\n">> ELSE << >>

\* generateDescription (lines 196-216); today is new Date().toISOString().split('T')[0]
generateDescription(apolloContact, today) ==
    <<"C", "o", "n", "t", "a", "c", "t", " ", "i", "m", "p", "o", "r", "t", "e", "d", " ", "f", "r", "o", "m", " ", "A", "p", "o", "l", "l", "o", ".", "i", "o", " ", "o", "n", " ">>
    \o today \o <<".", "\n", "\n">>
    \o DescriptionLine(apolloContact, <<"C", "o", "m", "p", "a", "n", "y", ":", " ">>, "organization_name")
    \o DescriptionLine(apolloContact, <<"T", "i", "t", "l", "e", ":", " ">>, "title")
    \o DescriptionLine(apolloContact, <<"S", "e", "n", "i", "o", "r", "i", "t", "y", ":", " ">>, "seniority")
    \o DescriptionLine(apolloContact, <<"L", "i", "n", "k", "e", "d", "I", "n", ":", " ">>, "linkedin_url")

\* The empty object, and an object with the one property.
NoFields == [f \in {} |-> << >>]
Field(name, value) == name :> value

\* apolloContact.phone_number || apolloContact.corporate_phone ||
\* apolloContact.work_direct_phone || ''
PhoneOf(apolloContact) ==
    IF Has(apolloContact, "phone_number") THEN apolloContact["phone_number"]
    ELSE IF Has(apolloContact, "corporate_phone") THEN apolloContact["corporate_phone"]
    ELSE OrEmpty(apolloContact, "work_direct_phone")

HasAddress(apolloContact) ==
    Has(apolloContact, "city") \/ Has(apolloContact, "state") \/ Has(apolloContact, "country")

\* mapApolloContactToBigin with every field it writes (lines 61-100).
mapContact(apolloContact, today) ==
    Field("Last_Name", getLastName(apolloContact))
    @@ Field("First_Name", OrEmpty(apolloContact, "first_name"))
    @@ Field("Email", OrEmpty(apolloContact, "email"))
    @@ Field("Phone", PhoneOf(apolloContact))
    @@ Field("Title", OrEmpty(apolloContact, "title"))
    @@ Field("Industry_Drop", mapIndustry(OrEmpty(apolloContact, "industry")))
    @@ Field("Lead_Source", <<"A", "p", "o", "l", "l", "o", ".", "i", "o">>)
    @@ Field("Description", generateDescription(apolloContact, today))
    @@ (IF Has(apolloContact, "organization_name")
        THEN Field("Account_Name", Field("name", apolloContact["organization_name"]))
        ELSE NoFields)
    @@ (IF HasAddress(apolloContact)
        THEN Field("Mailing_City", OrEmpty(apolloContact, "city"))
             @@ Field("Mailing_State", OrEmpty(apolloContact, "state"))
             @@ Field("Mailing_Country", OrEmpty(apolloContact, "country"))
        ELSE NoFields)
    @@ (IF Has(apolloContact, "linkedin_url")
        THEN Field("LinkedIn", apolloContact["linkedin_url"]) ELSE NoFields)
    @@ (IF Has(apolloContact, "twitter_url")
        THEN Field("Twitter", apolloContact["twitter_url"]) ELSE NoFields)

\* The value of a field a candidate contact does not have.
Undefined == <<"undefined">>

\* The Apollo contacts the mapper is given, each field absent, empty or set: those that
\* vary in the fields a name or a phone number is taken from, and those that vary in
\* the other fields.
CandidateContacts ==
    [last_name : {Undefined, << >>, <<"D", "o", "e">>},
     first_name : {Undefined, <<"J", "a", "n", "e">>},
     email : {Undefined, << >>, <<"b", "o", "b", "@", "x", ".", "c", "o", "m">>, <<"@", "x", ".", "c", "o", "m">>},
     phone_number : {Undefined, <<"5", "5", "5">>},
     corporate_phone : {Undefined, <<"7", "7", "7">>},
     title : {Undefined}, industry : {Undefined}, organization_name : {Undefined},
     city : {Undefined}, state : {Undefined}, country : {Undefined},
     linkedin_url : {Undefined}, twitter_url : {Undefined}]
    \cup
    [last_name : {Undefined, <<"D", "o", "e">>},
     first_name : {Undefined}, email : {Undefined},
     phone_number : {Undefined}, corporate_phone : {Undefined},
     title : {Undefined, <<"C", "E", "O">>},
     industry : {Undefined, <<"S", "a", "a", "S">>},
     organization_name : {Undefined, <<"A", "c", "m", "e">>},
     city : {Undefined, << >>, <<"P", "u", "n", "e">>},
     state : {Undefined, <<"M", "H">>},
     country : {Undefined, <<"I", "N">>},
     linkedin_url : {Undefined, <<"i", "n", "/", "j", "d">>},
     twitter_url : {Undefined, <<"x", "/", "j", "d">>}]

\* The object that has the fields of candidate r that are defined.
Defined(r) == [f \in {g \in DOMAIN r : r[g] # Undefined} |-> r[f]]

ApolloContacts == {Defined(r) : r \in CandidateContacts}

\* The industry labels the mapper is given.
IndustryLabels ==
    { << >>,
      <<"S", "a", "a", "S">>,
      <<"s", "a", "a", "s">>,
      <<"U", "n", "k", "n", "o", "w", "n", " ", "S", "e", "c", "t", "o", "r">>,
      <<"S", "o", "f", "t", "w", "a", "r", "e", " ", "D", "e", "v", "e", "l", "o", "p", "m", "e", "n", "t">>,
      <<"I", "T">>,
      <<"T", "e", "c", "h">>,
      <<"D", "2", "C">>,
      <<"H", "o", "s", "p", "i", "t", "a", "l", " ", "&", " ", "H", "e", "a", "l", "t", "h", " ", "C", "a", "r", "e">>,
      <<"E", "n", "e", "r", "g", "y">>,
      <<"e", "n", "e", "r", "g", "y">>,
      <<"c", "o", "n", "s", "t", "r", "u", "c", "t", "o", "r">>,
      <<"t", "o", "S", "t", "r", "i", "n", "g">>,
      <<"B", "i", "o", "t", "e", "c", "h">>,
      <<"O", "i", "l", " ", "&", " ", "E", "n", "e", "r", "g", "y">> }

Dates == {<<"2", "0", "2", "5", "-", "0", "1", "-", "3", "1">>}

VARIABLES
    now,                \* Date.now()
    hasCredentials,     \* BIGIN_CLIENT_ID && BIGIN_CLIENT_SECRET && BIGIN_REFRESH_TOKEN
    faults,             \* the kinds of answer the remote services can give
    lifetimes,          \* the expires_in values the auth endpoint can answer with
    envAccessToken,     \* process.env.BIGIN_ACCESS_TOKEN
    biginAccessToken,
    biginTokenExpiry,
    lastTokenRefresh,
    envFile,            \* the .env file: [exists, lines]
    biginContacts,      \* [cached, list]: null or the cached contact list
    lastContactsFetch,
    accounts,           \* the destination's Accounts
    contacts,           \* the destination's Contacts
    pc,                 \* per task: where its async function is suspended
    local,              \* per task: the local variables of its call
    ret,                \* per task: the settled value of its promise
    calls,              \* per task: the requests it has sent, with their answers
    authCalls,          \* the refresh calls sent to the auth endpoint
    prior,              \* per task: the tasks that had settled when its call began
    overtaken,          \* a call has settled while one that began earlier was pending
    bpc,                \* the bulk handler's position
    reqContacts,        \* req.body.contacts
    i,                  \* the bulk loop's index
    results,            \* the bulk handler's results list
    groups,             \* the groups the bulk loop has started, each a list of tasks
    delays,             \* how many inter-group delays the bulk loop has awaited
    response,           \* what the bulk handler has sent: [status, results, summary]
    mapped,             \* what the field mapper was called for: "contact", "industry"
    apolloContact,      \* the argument of mapApolloContactToBigin
    biginContact,       \* what it returned
    apolloIndustry,     \* the argument of mapIndustry
    mappedIndustry      \* what it returned

tokenVars == <<biginAccessToken, biginTokenExpiry, lastTokenRefresh, envFile>>
cacheVars == <<biginContacts, lastContactsFetch>>
destVars == <<accounts, contacts>>
taskVars == <<pc, local, ret, calls, authCalls, prior, overtaken>>
batchVars == <<bpc, reqContacts, i, results, groups, delays, response>>
envVars == <<hasCredentials, faults, lifetimes, envAccessToken>>
mapperVars == <<mapped, apolloContact, biginContact, apolloIndustry, mappedIndustry>>

vars == <<now, envVars, mapperVars, tokenVars, cacheVars, destVars, taskVars, batchVars>>

\* ----------------------------------------------------------- token manager

\* A token manager that takes the safety margin off a second time when it checks.
TokenValidMarginTwice(tok, exp, t) ==
    tok # NoToken /\ exp # NoExpiry /\ exp - SAFETY_MARGIN > t

\* biginAccessToken && biginTokenExpiry && biginTokenExpiry > now
TokenValid(tok, exp, t) == tok # NoToken /\ exp # NoExpiry /\ exp > t

\* A token manager that stays blocked once a refresh has been attempted.
CooldownActiveForGood(t, last) == last # 0

\* now - lastTokenRefresh < RATE_LIMIT_COOLDOWN
CooldownActive(t, last) == t - last < RATE_LIMIT_COOLDOWN

\* A token manager that counts the lifetime from the arrival of the response.
TokenExpiryFromAnswer(t, expires_in) ==
    now + ((IF expires_in = 0 THEN DEFAULT_EXPIRES_IN ELSE expires_in) * 1000) - SAFETY_MARGIN

\* now + (expiresIn * 1000) - (5 * 60 * 1000), expiresIn = expires_in || 3600
TokenExpiry(t, expires_in) ==
    t + ((IF expires_in = 0 THEN DEFAULT_EXPIRES_IN ELSE expires_in) * 1000) - SAFETY_MARGIN

RECURSIVE FirstIndexOf(_, _, _)
FirstIndexOf(lines, key, k) ==
    IF k > Len(lines) THEN 0
    ELSE IF lines[k].key = key THEN k
    ELSE FirstIndexOf(lines, key, k + 1)

\* An updateEnvFile that writes a file holding the one key.
updateEnvFileRewrites(env, key, value) ==
    IF ~env.exists THEN env
    ELSE [env EXCEPT !.lines = <<[key |-> key, value |-> value]>>]

\* updateEnvFile: replace the first line of the key, or append one; no file, no write.
updateEnvFile(env, key, value) ==
    IF ~env.exists THEN env
    ELSE LET k == FirstIndexOf(env.lines, key, 1)
         IN IF k # 0
            THEN [env EXCEPT !.lines[k] = [key |-> key, value |-> value]]
            ELSE [env EXCEPT !.lines = Append(@, [key |-> key, value |-> value])]

\* ------------------------------------------------------------------ tasks
NoLocal ==
    [kind |-> "none", now |-> 0, src |-> NoSource, contactData |-> NoContactData,
     token |-> NoToken, accountId |-> NoId, contactId |-> NoId, forceRefresh |-> FALSE,
     accountData |-> ""]

NoRet ==
    [st |-> "pending", token |-> NoToken, id |-> NoId, isUpdate |-> FALSE, error |-> NoErr,
     list |-> << >>]

\* A request: its operation, bearer token, the record id in its URL, its body (of a
\* contact, or the Account_Name of an account), and of its answer the kind, the time,
\* the ids of the records listed and expires_in.
Sent(op, tok) ==
    [op |-> op, res |-> "pending", token |-> tok, target |-> NoId, body |-> NoContactData,
     account |-> "", answered |-> 0, data |-> << >>, expires_in |-> 0]

\* axios.post(.../Accounts, {data: [{Account_Name: accountName}]})
SentAccount(tok, accountName) == [Sent("acctCreate", tok) EXCEPT !.account = accountName]

\* axios.put(.../Contacts/<target>, {data: [body]}), axios.post(.../Contacts, {data: [body]})
SentWrite(op, tok, target, body) == [Sent(op, tok) EXCEPT !.target = target, !.body = body]

\* The answer r to the request a task sent last.
Answered(cs, r) == [cs EXCEPT ![Len(cs)].res = r, ![Len(cs)].answered = now]

\* The answer to a search: the ids of the records found, in the order they are listed.
AnsweredData(cs, r, data) == [Answered(cs, r) EXCEPT ![Len(cs)].data = data]

\* The answer to a refresh call: response.data.expires_in.
AnsweredToken(cs, r, expires_in) == [Answered(cs, r) EXCEPT ![Len(cs)].expires_in = expires_in]

\* The part of the state a starting call works on.
Frame == [last |-> lastTokenRefresh, auth |-> authCalls, pc |-> pc, local |-> local,
          ret |-> ret, calls |-> calls, prior |-> prior, overtaken |-> overtaken]

Pending(F, t) == F.pc[t] \notin {"idle", "done"}

\* The promise of task t settles as r.
Settle(F, t, r) ==
    [F EXCEPT !.pc[t] = "done", !.ret[t] = r,
              !.overtaken = @ \/ \E u \in 1 .. (t - 1) : Pending(F, u)]

\* The promise of task t is fulfilled: with a token, or with {id, isUpdate}.
Fulfil(F, t, tok, id, isUpdate) ==
    Settle(F, t, [NoRet EXCEPT !.st = "ok", !.token = tok, !.id = id, !.isUpdate = isUpdate])

\* The promise of task t is rejected with e (createBiginContact's catch rethrows).
Reject(F, t, e) == Settle(F, t, [NoRet EXCEPT !.st = "error", !.error = e])

\* A getBiginContacts whose catch rethrows whether or not a list is cached.
RaiseNoFallback(F, t, e) == Reject(F, t, e)

\* An error e is thrown inside task t's call, in or under refreshBiginToken: the catch
\* of getBiginContacts (lines 273-285) returns the cached list if there is one, the
\* other callers' promises are rejected.
Raise(F, t, e) ==
    IF F.local[t].kind = "contacts" /\ biginContacts.cached
    THEN Settle(F, t, [NoRet EXCEPT !.st = "ok", !.list = biginContacts.list])
    ELSE Reject(F, t, e)

\* An upsert engine that creates the contact without searching for its email first.
AfterAccountNoSearch(F, t, accountId) ==
    LET data == IF accountId # NoId
                THEN [F.local[t].contactData EXCEPT !.Account_Name = AccountById(accountId)]
                ELSE F.local[t].contactData
    IN [F EXCEPT !.local[t].accountId = accountId,
                 !.local[t].contactData = data,
                 !.pc[t] = "create",
                 !.calls[t] = Append(@, SentWrite("create", F.local[t].token, NoId, data))]

\* createBiginContact after account resolution (lines 333-365): rebind the account
\* reference, then search by email, or create when the contact has no email.
AfterAccount(F, t, accountId) ==
    LET data == IF accountId # NoId
                THEN [F.local[t].contactData EXCEPT !.Account_Name = AccountById(accountId)]
                ELSE F.local[t].contactData
        op == IF data.Email # "" THEN "contactSearch" ELSE "create"
    IN [F EXCEPT !.local[t].accountId = accountId,
                 !.local[t].contactData = data,
                 !.pc[t] = op,
                 !.calls[t] = Append(@, IF op = "create"
                                        THEN SentWrite(op, F.local[t].token, NoId, data)
                                        ELSE Sent(op, F.local[t].token))]

\* getBiginAccounts up to its await (lines 391-393), first or again: the bearer token
\* is getBiginHeaders' process.env.BIGIN_ACCESS_TOKEN.
SendAccountsList(F, t) ==
    [F EXCEPT !.pc[t] = "accountsList",
              !.calls[t] = Append(@, Sent("accountsList", envAccessToken))]

\* createBiginAccount up to its await (lines 414-425), first or again.
SendAccountPost(F, t) ==
    [F EXCEPT !.pc[t] = "accountPost",
              !.calls[t] = Append(@, [Sent("accountPost", envAccessToken)
                                         EXCEPT !.account = F.local[t].accountData])]

\* refreshBiginToken has returned tok to task t (lines 296-312 for an upsert, 399-400
\* and 431-432 for the account functions, which call themselves again).
GotToken(F, t, tok) ==
    IF F.local[t].kind = "token"
    THEN Fulfil(F, t, tok, NoId, FALSE)
    ELSE IF F.local[t].kind = "accounts"
    THEN SendAccountsList(F, t)
    ELSE IF F.local[t].kind = "accountCreate"
    THEN SendAccountPost(F, t)
    ELSE IF F.local[t].kind = "contacts"
    THEN [F EXCEPT !.local[t].token = tok,
                   !.pc[t] = "list",
                   !.calls[t] = Append(@, Sent("list", tok))]
    ELSE LET G == [F EXCEPT !.local[t].token = tok]
         IN IF G.local[t].contactData.Account_Name.tag = "name"
            THEN [G EXCEPT !.pc[t] = "acctSearch",
                           !.calls[t] = Append(@, Sent("acctSearch", tok))]
            ELSE AfterAccount(G, t, NoId)

\* An upsert engine that goes on with the token it has when the cooldown blocks it.
BeginRefreshBlockedGoesOn(F, t, at) ==
    IF TokenValid(biginAccessToken, biginTokenExpiry, at)
    THEN GotToken(F, t, biginAccessToken)
    ELSE IF CooldownActive(at, F.last)
    THEN IF F.local[t].kind = "upsert"
         THEN GotToken(F, t, biginAccessToken)
         ELSE Raise(F, t, Err(MsgRateLimit, 0))
    ELSE IF ~hasCredentials
    THEN Raise([F EXCEPT !.last = at], t, Err(MsgNoCredentials, 0))
    ELSE [F EXCEPT !.last = at,
                   !.auth = Append(@, [task |-> t, at |-> at]),
                   !.pc[t] = "refresh",
                   !.local[t].now = at,
                   !.calls[t] = Append(@, Sent("auth", NoToken))]

\* A token manager that records the attempt only once the endpoint has answered.
BeginRefreshRecordsLate(F, t, at) ==
    IF TokenValid(biginAccessToken, biginTokenExpiry, at)
    THEN GotToken(F, t, biginAccessToken)
    ELSE IF CooldownActive(at, F.last)
    THEN Raise(F, t, Err(MsgRateLimit, 0))
    ELSE IF ~hasCredentials
    THEN Raise(F, t, Err(MsgNoCredentials, 0))
    ELSE [F EXCEPT !.auth = Append(@, [task |-> t, at |-> at]),
                   !.pc[t] = "refresh",
                   !.local[t].now = at,
                   !.calls[t] = Append(@, Sent("auth", NoToken))]

\* refreshBiginToken up to its await (lines 115-144), at time `at`.
BeginRefresh(F, t, at) ==
    IF TokenValid(biginAccessToken, biginTokenExpiry, at)
    THEN GotToken(F, t, biginAccessToken)
    ELSE IF CooldownActive(at, F.last)
    THEN Raise(F, t, Err(MsgRateLimit, 0))
    ELSE IF ~hasCredentials
    THEN Raise([F EXCEPT !.last = at], t, Err(MsgNoCredentials, 0))
    ELSE [F EXCEPT !.last = at,
                   !.auth = Append(@, [task |-> t, at |-> at]),
                   !.pc[t] = "refresh",
                   !.local[t].now = at,
                   !.calls[t] = Append(@, Sent("auth", NoToken))]

\* Task t calls refreshBiginToken directly (kind "token"), or createBiginContact
\* with the mapped form of src (kind "upsert").
BeginCall(F, t, kind, src, at) ==
    BeginRefresh(
        [F EXCEPT !.local[t] = [NoLocal EXCEPT !.kind = kind, !.now = at, !.src = src,
                                !.contactData = mapApolloContactToBigin(src)],
                  !.prior[t] = {u \in Tasks : F.pc[u] = "done"}],
        t, at)

Install(F) ==
    /\ lastTokenRefresh' = F.last
    /\ authCalls' = F.auth
    /\ pc' = F.pc
    /\ local' = F.local
    /\ ret' = F.ret
    /\ calls' = F.calls
    /\ prior' = F.prior
    /\ overtaken' = F.overtaken

\* Calls are numbered in the order they are made.
CanStart(t) == pc[t] = "idle" /\ \A u \in 1 .. (t - 1) : pc[u] # "idle"

\* A caller invokes refreshBiginToken().
StartToken(t) ==
    /\ CanStart(t)
    /\ Install(BeginCall(Frame, t, "token", NoSource, now))
    /\ UNCHANGED <<now, envVars, mapperVars, biginAccessToken, biginTokenExpiry, envFile,
                   cacheVars, destVars, batchVars>>

\* A caller invokes createBiginContact(mapApolloContactToBigin(src)).
StartUpsert(t, src) ==
    /\ CanStart(t)
    /\ Install(BeginCall(Frame, t, "upsert", src, now))
    /\ UNCHANGED <<now, envVars, mapperVars, biginAccessToken, biginTokenExpiry, envFile,
                   cacheVars, destVars, batchVars>>

\* A token manager that forgets the token it holds when a refresh attempt fails.
RefreshResponseForgetsToken(t, r, expires_in) ==
    /\ pc[t] = "refresh"
    /\ r \in AuthRespKinds \cap faults
    /\ expires_in \in lifetimes
    /\ LET F == [Frame EXCEPT !.calls[t] = AnsweredToken(@, r, expires_in)]
       IN \/ /\ r = "ok"
             /\ biginAccessToken' = IssuedToken(t)
             /\ biginTokenExpiry' = TokenExpiry(local[t].now, expires_in)
             /\ envFile' = updateEnvFile(envFile, "BIGIN_ACCESS_TOKEN", IssuedToken(t))
             /\ Install(GotToken(F, t, IssuedToken(t)))
          \/ /\ r = "notoken"
             /\ expires_in = 0
             /\ Install(Raise(F, t, Err(MsgRefreshFailed, 0)))
             /\ biginAccessToken' = NoToken
             /\ biginTokenExpiry' = NoExpiry
             /\ UNCHANGED envFile
          \/ /\ r \in {"throttle", "invalid", "other"}
             /\ expires_in = 0
             /\ LET p == IF r = "throttle" THEN ThrottlePayload
                         ELSE IF r = "invalid" THEN InvalidPayload
                         ELSE OtherPayload
                    G == IF IsRateLimitPayload(p) THEN [F EXCEPT !.last = now] ELSE F
                IN Install(Raise(G, t, Err(PayloadMessage(p, MsgHttp400), 0)))
             /\ biginAccessToken' = NoToken
             /\ biginTokenExpiry' = NoExpiry
             /\ UNCHANGED envFile
          \/ /\ r = "network"
             /\ expires_in = 0
             /\ Install(Raise(F, t, Err(MsgNetwork, 0)))
             /\ biginAccessToken' = NoToken
             /\ biginTokenExpiry' = NoExpiry
             /\ UNCHANGED envFile
    /\ UNCHANGED <<now, envVars, mapperVars, cacheVars, destVars, batchVars>>

\* The auth endpoint answers task t's refresh call (lines 144-180).
RefreshResponse(t, r, expires_in) ==
    /\ pc[t] = "refresh"
    /\ r \in AuthRespKinds \cap faults
    /\ expires_in \in lifetimes
    /\ LET F == [Frame EXCEPT !.calls[t] = AnsweredToken(@, r, expires_in)]
       IN \/ /\ r = "ok"
             /\ biginAccessToken' = IssuedToken(t)
             /\ biginTokenExpiry' = TokenExpiry(local[t].now, expires_in)
             /\ envFile' = updateEnvFile(envFile, "BIGIN_ACCESS_TOKEN", IssuedToken(t))
             /\ Install(GotToken(F, t, IssuedToken(t)))
          \/ /\ r = "notoken"
             /\ expires_in = 0
             /\ Install(Raise(F, t, Err(MsgRefreshFailed, 0)))
             /\ UNCHANGED <<biginAccessToken, biginTokenExpiry, envFile>>
          \/ /\ r \in {"throttle", "invalid", "other"}
             /\ expires_in = 0
             /\ LET p == IF r = "throttle" THEN ThrottlePayload
                         ELSE IF r = "invalid" THEN InvalidPayload
                         ELSE OtherPayload
                    G == IF IsRateLimitPayload(p) THEN [F EXCEPT !.last = now] ELSE F
                IN Install(Raise(G, t, Err(PayloadMessage(p, MsgHttp400), 0)))
             /\ UNCHANGED <<biginAccessToken, biginTokenExpiry, envFile>>
          \/ /\ r = "network"
             /\ expires_in = 0
             /\ Install(Raise(F, t, Err(MsgNetwork, 0)))
             /\ UNCHANGED <<biginAccessToken, biginTokenExpiry, envFile>>
    /\ UNCHANGED <<now, envVars, mapperVars, cacheVars, destVars, batchVars>>

\* ------------------------------------------------------------ destination
\* GET /Accounts/search?criteria=Account_Name:equals:<name>
AccountsNamed(n) == {a \in accounts : a.name = n}
\* GET /Contacts/search?criteria=Email:equals:<email>
ContactsWithEmail(e) == {c \in contacts : c.Email = e}

\* The orders in which the destination can list the records of S in response.data.data.
Orderings(S) ==
    {lst \in [1 .. Cardinality(S) -> S] :
        \A a, b \in 1 .. Cardinality(S) : a # b => lst[a] # lst[b]}

Ids(lst) == [k \in 1 .. Len(lst) |-> lst[k].id]

\* ------------------------------------------------------------ contact cache

\* !forceRefresh && biginContacts && (now - lastContactsFetch < CACHE_LIFETIME)
CacheFresh(forceRefresh, cache, t, last) ==
    ~forceRefresh /\ cache.cached /\ t - last < CACHE_LIFETIME

\* A getBiginContacts without its own cooldown.
FetchCooldownIgnored(t, last) == FALSE

\* now - lastContactsFetch < RATE_LIMIT_COOLDOWN
FetchCooldownActive(t, last) == t - last < RATE_LIMIT_COOLDOWN

\* biginContacts || []
CachedOrEmpty(cache) == IF cache.cached THEN cache.list ELSE << >>

\* The promise of task t is fulfilled with a list of contacts.
FulfilList(F, t, lst) == Settle(F, t, [NoRet EXCEPT !.st = "ok", !.list = lst])

\* A caller invokes getBiginContacts(forceRefresh) (lines 234-264).
StartContacts(t, forceRefresh) ==
    /\ CanStart(t)
    /\ LET F == [Frame EXCEPT
                    !.local[t] = [NoLocal EXCEPT !.kind = "contacts", !.now = now,
                                                !.forceRefresh = forceRefresh],
                    !.prior[t] = {u \in Tasks : pc[u] = "done"}]
       IN IF CacheFresh(forceRefresh, biginContacts, now, lastContactsFetch)
          THEN /\ Install(FulfilList(F, t, biginContacts.list))
               /\ UNCHANGED lastContactsFetch
          ELSE IF FetchCooldownActive(now, lastContactsFetch)
          THEN /\ Install(FulfilList(F, t, CachedOrEmpty(biginContacts)))
               /\ UNCHANGED lastContactsFetch
          ELSE /\ lastContactsFetch' = now
               /\ Install(BeginRefresh(F, t, now))
    /\ UNCHANGED <<now, envVars, mapperVars, biginAccessToken, biginTokenExpiry, envFile,
                   biginContacts, destVars, batchVars>>

\* GET /Contacts answers (lines 264-285).
ContactsListResponse(t, r) ==
    /\ pc[t] = "list"
    /\ r \in ListRespKinds \cap faults
    /\ IF r = "ok"
       THEN \E lst \in Orderings(contacts) :
               /\ biginContacts' = [cached |-> TRUE, list |-> lst]
               /\ Install(FulfilList([Frame EXCEPT !.calls[t] = AnsweredData(@, r, Ids(lst))],
                                      t, lst))
       ELSE IF r = "nodata"
       THEN /\ UNCHANGED biginContacts
            /\ Install(FulfilList([Frame EXCEPT !.calls[t] = Answered(@, r)], t, << >>))
       ELSE /\ UNCHANGED biginContacts
            /\ Install(Raise([Frame EXCEPT !.calls[t] = Answered(@, r)], t, HttpError(r)))
    /\ UNCHANGED <<now, envVars, mapperVars, biginAccessToken, biginTokenExpiry, envFile,
                   lastContactsFetch, destVars, batchVars>>

\* ------------------------------------------------------------ upsert engine

\* An upsert engine that creates the account whatever the search lists.
AccountSearchResponseAlwaysCreates(t, r) ==
    /\ pc[t] = "acctSearch"
    /\ r \in SearchRespKinds \cap faults
    /\ LET found == AccountsNamed(local[t].contactData.Account_Name.name)
       IN IF r # "ok"
          THEN Install(Reject([Frame EXCEPT !.calls[t] = Answered(@, r)], t, HttpError(r)))
          ELSE \E lst \in Orderings(found) :
                  LET F == [Frame EXCEPT !.calls[t] = AnsweredData(@, r, Ids(lst))]
                  IN Install([F EXCEPT
                         !.pc[t] = "acctCreate",
                         !.calls[t] = Append(@,
                             SentAccount(local[t].token,
                                         local[t].contactData.Account_Name.name))])
    /\ UNCHANGED <<now, envVars, mapperVars, biginAccessToken, biginTokenExpiry, envFile,
                   cacheVars, destVars, batchVars>>

\* The account search answers (lines 310-325).
AccountSearchResponse(t, r) ==
    /\ pc[t] = "acctSearch"
    /\ r \in SearchRespKinds \cap faults
    /\ LET found == AccountsNamed(local[t].contactData.Account_Name.name)
       IN IF r # "ok"
          THEN Install(Reject([Frame EXCEPT !.calls[t] = Answered(@, r)], t, HttpError(r)))
          ELSE \E lst \in Orderings(found) :
                  LET F == [Frame EXCEPT !.calls[t] = AnsweredData(@, r, Ids(lst))]
                  IN IF Len(lst) > 0
                     THEN Install(AfterAccount(F, t, lst[1].id))
                     ELSE Install([F EXCEPT
                              !.pc[t] = "acctCreate",
                              !.calls[t] = Append(@,
                                  SentAccount(local[t].token,
                                              local[t].contactData.Account_Name.name))])
    /\ UNCHANGED <<now, envVars, mapperVars, biginAccessToken, biginTokenExpiry, envFile,
                   cacheVars, destVars, batchVars>>

\* An upsert engine that swallows a failed account creation and goes on to the contact.
AccountCreateResponseSwallowed(t, r) ==
    /\ pc[t] = "acctCreate"
    /\ r \in WriteRespKinds \cap faults
    /\ LET F == [Frame EXCEPT !.calls[t] = Answered(@, r)]
       IN IF r = "ok"
          THEN /\ accounts' = accounts \cup
                     {[id |-> NewAccountId(t),
                       name |-> local[t].contactData.Account_Name.name]}
               /\ Install(AfterAccount(F, t, NewAccountId(t)))
          ELSE /\ accounts' = accounts
               /\ Install(AfterAccount(F, t, NoId))
    /\ UNCHANGED <<now, envVars, mapperVars, biginAccessToken, biginTokenExpiry, envFile,
                   cacheVars, contacts, batchVars>>

\* The account creation answers (lines 323-336).
AccountCreateResponse(t, r) ==
    /\ pc[t] = "acctCreate"
    /\ r \in WriteRespKinds \cap faults
    /\ LET F == [Frame EXCEPT !.calls[t] = Answered(@, r)]
       IN IF r = "ok"
          THEN /\ accounts' = accounts \cup
                     {[id |-> NewAccountId(t),
                       name |-> local[t].contactData.Account_Name.name]}
               /\ Install(AfterAccount(F, t, NewAccountId(t)))
          ELSE IF r = "nodata"
          THEN /\ accounts' = accounts
               /\ Install(AfterAccount(F, t, NoId))
          ELSE /\ accounts' = accounts
               /\ Install(Reject(F, t, HttpError(r)))
    /\ UNCHANGED <<now, envVars, mapperVars, biginAccessToken, biginTokenExpiry, envFile,
                   cacheVars, contacts, batchVars>>

\* A caller invokes getBiginAccounts().
StartAccounts(t) ==
    /\ CanStart(t)
    /\ Install(SendAccountsList(
           [Frame EXCEPT !.local[t] = [NoLocal EXCEPT !.kind = "accounts", !.now = now],
                         !.prior[t] = {u \in Tasks : pc[u] = "done"}], t))
    /\ UNCHANGED <<now, envVars, mapperVars, biginAccessToken, biginTokenExpiry, envFile,
                   cacheVars, destVars, batchVars>>

\* A caller invokes createBiginAccount({name: accountName}).
StartAccountCreate(t, accountName) ==
    /\ CanStart(t)
    /\ Install(SendAccountPost(
           [Frame EXCEPT !.local[t] = [NoLocal EXCEPT !.kind = "accountCreate", !.now = now,
                                                     !.accountData = accountName],
                         !.prior[t] = {u \in Tasks : pc[u] = "done"}], t))
    /\ UNCHANGED <<now, envVars, mapperVars, biginAccessToken, biginTokenExpiry, envFile,
                   cacheVars, destVars, batchVars>>

\* An account function that gives up when the call it made again is answered 401 too.
AccountCatchOneRetry(F, t, r) ==
    IF r = "e401" /\ Len(F.calls[t]) = 1 THEN BeginRefresh(F, t, now)
    ELSE Reject(F, t, HttpError(r))

\* The catch block of the two account functions (lines 396-404, 428-436): on a 401
\* await refreshBiginToken() and call the function again, otherwise rethrow.
AccountCatch(F, t, r) ==
    IF r = "e401" THEN BeginRefresh(F, t, now) ELSE Reject(F, t, HttpError(r))

\* GET /Accounts answers (lines 393-404).
AccountsListResponse(t, r) ==
    /\ pc[t] = "accountsList"
    /\ r \in AccountRespKinds \cap faults
    /\ r = "e401" => Len(calls[t]) < MaxAccountRequests
    /\ IF r = "ok"
       THEN \E lst \in Orderings(accounts) :
               Install(FulfilList([Frame EXCEPT !.calls[t] = AnsweredData(@, r, Ids(lst))],
                                  t, Ids(lst)))
       ELSE Install(AccountCatch([Frame EXCEPT !.calls[t] = Answered(@, r)], t, r))
    /\ UNCHANGED <<now, envVars, mapperVars, biginAccessToken, biginTokenExpiry, envFile,
                   cacheVars, destVars, batchVars>>

\* POST /Accounts answers (lines 425-436).
AccountPostResponse(t, r) ==
    /\ pc[t] = "accountPost"
    /\ r \in AccountRespKinds \cap faults
    /\ r = "e401" => Len(calls[t]) < MaxAccountRequests
    /\ LET F == [Frame EXCEPT !.calls[t] = Answered(@, r)]
       IN IF r = "ok"
          THEN /\ accounts' = accounts \cup
                     {[id |-> NewAccountId(t), name |-> local[t].accountData]}
               /\ Install(Fulfil(F, t, NoToken, NewAccountId(t), FALSE))
          ELSE /\ accounts' = accounts
               /\ Install(AccountCatch(F, t, r))
    /\ UNCHANGED <<now, envVars, mapperVars, biginAccessToken, biginTokenExpiry, envFile,
                   cacheVars, contacts, batchVars>>

\* An upsert engine that updates the last of the contacts the search lists.
ContactSearchResponseLastMatch(t, r) ==
    /\ pc[t] = "contactSearch"
    /\ r \in SearchRespKinds \cap faults
    /\ LET found == ContactsWithEmail(local[t].contactData.Email)
           data == local[t].contactData
       IN IF r # "ok"
          THEN Install(Reject([Frame EXCEPT !.calls[t] = Answered(@, r)], t, HttpError(r)))
          ELSE \E lst \in Orderings(found) :
                  LET F == [Frame EXCEPT !.calls[t] = AnsweredData(@, r, Ids(lst))]
                  IN IF Len(lst) > 0
                     THEN Install([F EXCEPT
                              !.local[t].contactId = lst[Len(lst)].id,
                              !.pc[t] = "update",
                              !.calls[t] = Append(@, SentWrite("update", local[t].token,
                                                               lst[Len(lst)].id, data))])
                     ELSE Install([F EXCEPT
                              !.pc[t] = "create",
                              !.calls[t] = Append(@, SentWrite("create", local[t].token,
                                                               NoId, data))])
    /\ UNCHANGED <<now, envVars, mapperVars, biginAccessToken, biginTokenExpiry, envFile,
                   cacheVars, destVars, batchVars>>

\* The contact search answers (lines 340-350).
ContactSearchResponse(t, r) ==
    /\ pc[t] = "contactSearch"
    /\ r \in SearchRespKinds \cap faults
    /\ LET found == ContactsWithEmail(local[t].contactData.Email)
           data == local[t].contactData
       IN IF r # "ok"
          THEN Install(Reject([Frame EXCEPT !.calls[t] = Answered(@, r)], t, HttpError(r)))
          ELSE \E lst \in Orderings(found) :
                  LET F == [Frame EXCEPT !.calls[t] = AnsweredData(@, r, Ids(lst))]
                  IN IF Len(lst) > 0
                     THEN Install([F EXCEPT
                              !.local[t].contactId = lst[1].id,
                              !.pc[t] = "update",
                              !.calls[t] = Append(@, SentWrite("update", local[t].token,
                                                               lst[1].id, data))])
                     ELSE Install([F EXCEPT
                              !.pc[t] = "create",
                              !.calls[t] = Append(@, SentWrite("create", local[t].token,
                                                               NoId, data))])
    /\ UNCHANGED <<now, envVars, mapperVars, biginAccessToken, biginTokenExpiry, envFile,
                   cacheVars, destVars, batchVars>>

\* An upsert engine that creates the contact whenever the update did not succeed.
UpdateResponseFallsBackToCreate(t, r) ==
    /\ pc[t] = "update"
    /\ r \in WriteRespKinds \cap faults
    /\ LET F == [Frame EXCEPT !.calls[t] = Answered(@, r)]
           id == local[t].contactId
           data == local[t].contactData
       IN IF r = "ok"
          THEN /\ contacts' = {c \in contacts : c.id # id} \cup
                     {[id |-> id, Email |-> data.Email, Account_Name |-> data.Account_Name]}
               /\ Install(Fulfil(F, t, NoToken, id, TRUE))
          ELSE /\ contacts' = contacts
               /\ Install([F EXCEPT !.pc[t] = "create",
                                    !.calls[t] = Append(@, SentWrite("create", local[t].token,
                                                                     NoId, data))])
    /\ UNCHANGED <<now, envVars, mapperVars, biginAccessToken, biginTokenExpiry, envFile,
                   cacheVars, accounts, batchVars>>

\* The contact update answers (lines 348-365).
UpdateResponse(t, r) ==
    /\ pc[t] = "update"
    /\ r \in WriteRespKinds \cap faults
    /\ LET F == [Frame EXCEPT !.calls[t] = Answered(@, r)]
           id == local[t].contactId
           data == local[t].contactData
       IN IF r = "ok"
          THEN /\ contacts' = {c \in contacts : c.id # id} \cup
                     {[id |-> id, Email |-> data.Email, Account_Name |-> data.Account_Name]}
               /\ Install(Fulfil(F, t, NoToken, id, TRUE))
          ELSE IF r = "nodata"
          THEN /\ contacts' = contacts
               /\ Install([F EXCEPT !.pc[t] = "create",
                                    !.calls[t] = Append(@, SentWrite("create", local[t].token,
                                                                     NoId, data))])
          ELSE /\ contacts' = contacts
               /\ Install(Reject(F, t, HttpError(r)))
    /\ UNCHANGED <<now, envVars, mapperVars, biginAccessToken, biginTokenExpiry, envFile,
                   cacheVars, accounts, batchVars>>

\* An upsert engine that sends the creation again when its answer has no data entry.
CreateResponseRetries(t, r) ==
    /\ pc[t] = "create"
    /\ r \in WriteRespKinds \cap faults
    /\ LET F == [Frame EXCEPT !.calls[t] = Answered(@, r)]
           data == local[t].contactData
           details == [id |-> NewContactId(t), Email |-> data.Email,
                       Account_Name |-> data.Account_Name]
       IN IF r = "ok"
          THEN /\ contacts' = contacts \cup {details}
               /\ biginContacts' = IF biginContacts.cached
                                   THEN [biginContacts EXCEPT !.list = Append(@, details)]
                                   ELSE biginContacts
               /\ Install(Fulfil(F, t, NoToken, NewContactId(t), FALSE))
          ELSE IF r = "nodata"
          THEN /\ UNCHANGED <<contacts, biginContacts>>
               /\ Install([F EXCEPT !.calls[t] = Append(@, SentWrite("create", local[t].token,
                                                                     NoId, data))])
          ELSE /\ UNCHANGED <<contacts, biginContacts>>
               /\ Install(Reject(F, t, HttpError(r)))
    /\ UNCHANGED <<now, envVars, mapperVars, biginAccessToken, biginTokenExpiry, envFile,
                   lastContactsFetch, accounts, batchVars>>

\* The contact creation answers (lines 363-376).
CreateResponse(t, r) ==
    /\ pc[t] = "create"
    /\ r \in WriteRespKinds \cap faults
    /\ LET F == [Frame EXCEPT !.calls[t] = Answered(@, r)]
           data == local[t].contactData
           details == [id |-> NewContactId(t), Email |-> data.Email,
                       Account_Name |-> data.Account_Name]
       IN IF r = "ok"
          THEN /\ contacts' = contacts \cup {details}
               /\ biginContacts' = IF biginContacts.cached
                                   THEN [biginContacts EXCEPT !.list = Append(@, details)]
                                   ELSE biginContacts
               /\ Install(Fulfil(F, t, NoToken, NewContactId(t), FALSE))
          ELSE IF r = "nodata"
          THEN /\ UNCHANGED <<contacts, biginContacts>>
               /\ Install(Reject(F, t, Err(MsgCreateFailed, 0)))
          ELSE /\ UNCHANGED <<contacts, biginContacts>>
               /\ Install(Reject(F, t, HttpError(r)))
    /\ UNCHANGED <<now, envVars, mapperVars, biginAccessToken, biginTokenExpiry, envFile,
                   lastContactsFetch, accounts, batchVars>>

\* ------------------------------------------------------------ bulk sync loop
NoSummary == [total |-> 0, success |-> 0, error |-> 0]
NoResponse == [status |-> 0, results |-> << >>, summary |-> NoSummary]

MsgSynced == "Successfully synced to Bigin"
MsgSyncError == "Error syncing to Bigin"

\* What one callback of batch.map returns for src when its upsert settled as r
\* (server.js lines 430-447).
BatchEntry(src, r) ==
    IF r.st = "ok"
    THEN [id |-> src.id, email |-> src.email, company |-> src.organization_name,
          success |-> TRUE, bigin_id |-> r.id, message |-> MsgSynced]
    ELSE [id |-> src.id, email |-> src.email, company |-> src.organization_name,
          success |-> FALSE, bigin_id |-> NoId,
          message |-> IF r.error.message # "" THEN r.error.message ELSE MsgSyncError]

\* contacts.slice(i, Math.min(i + batchSize, contacts.length)), as positions lo..hi.
BatchSlice(k, n) == [lo |-> k + 1, hi |-> Min(k + batchSize, n)]

\* A loop that goes on as soon as one promise of the group has settled (Promise.race).
AnySettled(g) == \E t \in g.lo .. g.hi : pc[t] = "done"

\* Promise.all(batchPromises) resolves: every promise of the group has settled.
AllSettled(g) == \A t \in g.lo .. g.hi : pc[t] = "done"

\* A loop whose callbacks rethrow, the failed records being filtered out of the results.
BatchResultsDropFailed(g) ==
    SelectSeq([k \in 1 .. (g.hi - g.lo + 1) |->
                   BatchEntry(reqContacts[g.lo + k - 1], ret[g.lo + k - 1])],
              LAMBDA e : e.success)

\* A loop that collects the group's values last promise first.
BatchResultsReversed(g) == [k \in 1 .. (g.hi - g.lo + 1) |->
                               BatchEntry(reqContacts[g.hi - k + 1], ret[g.hi - k + 1])]

\* await Promise.all(...): the callbacks' values in the order of the promises.
BatchResults(g) == [k \in 1 .. (g.hi - g.lo + 1) |->
                        BatchEntry(reqContacts[g.lo + k - 1], ret[g.lo + k - 1])]

\* A loop that also waits after a last group that is full.
MoreBatchesInclusive(k, n) == k + batchSize <= n

\* i + batchSize < contacts.length: the delay's condition
MoreBatches(k, n) == k + batchSize < n

\* i < contacts.length: the loop's condition
LoopCond(k, n) == k < n

\* batch.map(async ...) runs each callback up to its first pending await, in order.
RECURSIVE LaunchBatch(_, _, _, _)
LaunchBatch(F, k, hi, at) ==
    IF k > hi THEN F
    ELSE LaunchBatch(BeginCall(F, k, "upsert", reqContacts[k], at), k + 1, hi, at)

CountWhere(seq, success) == Cardinality({k \in 1 .. Len(seq) : seq[k].success = success})

\* A summary that counts every entry as a success.
SummaryAllSucceeded(n, rs) == [total |-> n, success |-> Len(rs), error |-> 0]

\* results.filter(r => r.success).length and results.filter(r => !r.success).length
Summary(n, rs) ==
    [total |-> n, success |-> CountWhere(rs, TRUE), error |-> CountWhere(rs, FALSE)]

\* The head of the for loop with i = k, at time `at`, rs being the results so far:
\* start the group at k, or leave the loop and answer (server.js lines 418-422, 462-470).
LoopHead(k, at, rs) ==
    /\ i' = k
    /\ IF LoopCond(k, Len(reqContacts))
       THEN /\ bpc' = "await"
            /\ groups' = Append(groups, BatchSlice(k, Len(reqContacts)))
            /\ Install(LaunchBatch(Frame, k + 1, BatchSlice(k, Len(reqContacts)).hi, at))
            /\ UNCHANGED response
       ELSE /\ bpc' = "done"
            /\ response' = [status |-> 200, results |-> rs,
                            summary |-> Summary(Len(reqContacts), rs)]
            /\ UNCHANGED <<taskVars, lastTokenRefresh, groups>>

\* POST /api/sync/contacts/bulk arrives: validation, then the loop begins
\* (server.js lines 405-418).
BulkRequest ==
    /\ bpc = "idle"
    /\ IF Len(reqContacts) = 0
       THEN /\ bpc' = "rejected"
            /\ response' = [NoResponse EXCEPT !.status = 400]
            /\ UNCHANGED <<taskVars, lastTokenRefresh, groups, i>>
       ELSE LoopHead(0, now, << >>)
    /\ UNCHANGED <<now, envVars, mapperVars, biginAccessToken, biginTokenExpiry, envFile, cacheVars,
                   destVars, reqContacts, results, delays>>

\* The group's Promise.all resolves: collect its results, then wait for the delay
\* or step the loop (server.js lines 452-459).
GroupSettled ==
    /\ bpc = "await"
    /\ AllSettled(BatchSlice(i, Len(reqContacts)))
    /\ LET rs == results \o BatchResults(BatchSlice(i, Len(reqContacts)))
       IN /\ results' = rs
          /\ IF MoreBatches(i, Len(reqContacts))
             THEN /\ bpc' = "delay"
                  /\ UNCHANGED <<i, response, taskVars, lastTokenRefresh, groups>>
             ELSE LoopHead(i + batchSize, now, rs)
    /\ UNCHANGED <<now, envVars, mapperVars, biginAccessToken, biginTokenExpiry, envFile, cacheVars,
                   destVars, reqContacts, delays>>

\* The batchDelay timer fires and the loop steps (server.js line 457).
DelayElapsed ==
    /\ bpc = "delay"
    /\ now' = now + batchDelay
    /\ delays' = delays + 1
    /\ LoopHead(i + batchSize, now + batchDelay, results)
    /\ UNCHANGED <<envVars, mapperVars, biginAccessToken, biginTokenExpiry, envFile, cacheVars,
                   destVars, reqContacts, results>>

\* Time passes.
Tick ==
    /\ now + TickMs <= StartTime + MaxTicks * TickMs
    /\ now' = now + TickMs
    /\ UNCHANGED <<envVars, mapperVars, tokenVars, cacheVars, destVars, taskVars, batchVars>>

\* Time passes: a cooldown window (long == FALSE) or four of them (long == TRUE); one
\* of each make up the cache's lifetime.
CacheTick(long, maxTicks) ==
    /\ LET units == (now - StartTime) \div CacheTickMs
       IN (units \div 4) + (units % 4) < maxTicks
    /\ now' = now + (IF long THEN 4 * CacheTickMs ELSE CacheTickMs)
    /\ UNCHANGED <<envVars, mapperVars, tokenVars, cacheVars, destVars, taskVars, batchVars>>

\* ------------------------------------------------------ field mapper calls
\* mapApolloContactToBigin(c) is called, on the day today.
MapContact(c, today) ==
    /\ mapped = "none"
    /\ mapped' = "contact"
    /\ apolloContact' = c
    /\ biginContact' = mapContact(c, today)
    /\ UNCHANGED <<apolloIndustry, mappedIndustry>>
    /\ UNCHANGED <<now, envVars, tokenVars, cacheVars, destVars, taskVars, batchVars>>

\* mapIndustry(label) is called.
MapIndustry(label) ==
    /\ mapped = "none"
    /\ mapped' = "industry"
    /\ apolloIndustry' = label
    /\ mappedIndustry' = mapIndustry(label)
    /\ UNCHANGED <<apolloContact, biginContact>>
    /\ UNCHANGED <<now, envVars, tokenVars, cacheVars, destVars, taskVars, batchVars>>

\* ----------------------------------------------------------- specification
EnvFiles ==
    { [exists |-> FALSE, lines |-> << >>],
      [exists |-> TRUE, lines |-> <<[key |-> "APOLLO_API_KEY", value |-> 7]>>],
      [exists |-> TRUE, lines |-> <<[key |-> "BIGIN_ACCESS_TOKEN", value |-> EnvToken],
                                    [key |-> "APOLLO_API_KEY", value |-> 7]>>] }

InitProcess ==
    /\ now = StartTime
    /\ biginContacts = [cached |-> FALSE, list |-> << >>]
    /\ lastContactsFetch = 0
    /\ pc = [t \in Tasks |-> "idle"]
    /\ local = [t \in Tasks |-> NoLocal]
    /\ ret = [t \in Tasks |-> NoRet]
    /\ calls = [t \in Tasks |-> << >>]
    /\ authCalls = << >>
    /\ prior = [t \in Tasks |-> {}]
    /\ overtaken = FALSE
    /\ i = 0
    /\ results = << >>
    /\ groups = << >>
    /\ delays = 0
    /\ response = NoResponse
    /\ mapped = "none"
    /\ apolloContact = NoFields
    /\ biginContact = NoFields
    /\ apolloIndustry = << >>
    /\ mappedIndustry = << >>

\* A process as loaded, against an empty destination.
InitCommon ==
    /\ InitProcess
    /\ accounts = {}
    /\ contacts = {}

\* A process whose module state is as loaded.
FreshToken ==
    /\ envAccessToken = IF envFile.exists
                           /\ FirstIndexOf(envFile.lines, "BIGIN_ACCESS_TOKEN", 1) # 0
                        THEN EnvToken ELSE NoToken
    /\ biginAccessToken = envAccessToken
    /\ biginTokenExpiry = NoExpiry
    /\ lastTokenRefresh = 0

\* A process that refreshed its token one cooldown ago.
RefreshedToken ==
    /\ envAccessToken = IF envFile.exists
                           /\ FirstIndexOf(envFile.lines, "BIGIN_ACCESS_TOKEN", 1) # 0
                        THEN EnvToken ELSE NoToken
    /\ biginAccessToken = IssuedToken(0)
    /\ biginTokenExpiry = TokenExpiry(StartTime - RATE_LIMIT_COOLDOWN, 0)
    /\ lastTokenRefresh = StartTime - RATE_LIMIT_COOLDOWN

ConfiguredEnvFile ==
    [exists |-> TRUE, lines |-> <<[key |-> "BIGIN_ACCESS_TOKEN", value |-> EnvToken],
                                  [key |-> "APOLLO_API_KEY", value |-> 7]>>]

\* Callers of createBiginContact and refreshBiginToken against the destination, any
\* answer possible, within one instant of the clock.
Init ==
    /\ InitCommon
    /\ hasCredentials = TRUE
    /\ faults = {"ok", "nodata", "e401", "e500", "network"}
    /\ lifetimes = {0}
    /\ envFile = ConfiguredEnvFile
    /\ FreshToken \/ RefreshedToken
    /\ bpc = "off"
    /\ reqContacts = << >>

Next ==
    \/ \E t \in Callers : StartToken(t)
    \/ \E t \in Callers, src \in SourceContacts : StartUpsert(t, src)
    \/ \E t \in Tasks, r \in AuthRespKinds, e \in ExpiresInSet : RefreshResponse(t, r, e)
    \/ \E t \in Tasks, r \in SearchRespKinds : AccountSearchResponse(t, r)
    \/ \E t \in Tasks, r \in WriteRespKinds : AccountCreateResponse(t, r)
    \/ \E t \in Tasks, r \in SearchRespKinds : ContactSearchResponse(t, r)
    \/ \E t \in Tasks, r \in WriteRespKinds : UpdateResponse(t, r)
    \/ \E t \in Tasks, r \in WriteRespKinds : CreateResponse(t, r)

Spec == Init /\ [][Next]_vars

\* The token manager alone, under callers of refreshBiginToken, as the clock advances.
InitToken ==
    /\ InitCommon
    /\ hasCredentials \in BOOLEAN
    /\ faults = AuthRespKinds
    /\ lifetimes = ExpiresInSet
    /\ envFile \in EnvFiles
    /\ FreshToken
    /\ bpc = "off"
    /\ reqContacts = << >>

NextToken ==
    \/ \E t \in TokenCallers : StartToken(t)
    \/ \E t \in Tasks, r \in AuthRespKinds, e \in ExpiresInSet : RefreshResponse(t, r, e)
    \/ Tick

SpecToken == InitToken /\ [][NextToken]_vars

\* The contacts list of a bulk request with n records: the first has an email and a
\* company, the sixth repeats the email, the others have neither.
BatchRecord(k) ==
    [id |-> k,
     email |-> IF k \in {1, 6} THEN "john@acme.com" ELSE "",
     organization_name |-> IF k \in {1} THEN "Acme" ELSE ""]

\* The bulk handler, started in a fresh process or after an earlier refresh.
InitBatch ==
    /\ InitCommon
    /\ hasCredentials = TRUE
    /\ faults = {"ok", "e500", "throttle"}
    /\ lifetimes = {0}
    /\ envFile = ConfiguredEnvFile
    /\ FreshToken \/ RefreshedToken
    /\ bpc = "idle"
    /\ \E n \in 0 .. MaxRecords : reqContacts = [k \in 1 .. n |-> BatchRecord(k)]

NextBatch ==
    \/ BulkRequest
    \/ GroupSettled
    \/ DelayElapsed
    \/ \E t \in Tasks, r \in AuthRespKinds, e \in ExpiresInSet : RefreshResponse(t, r, e)
    \/ \E t \in Tasks, r \in SearchRespKinds : AccountSearchResponse(t, r)
    \/ \E t \in Tasks, r \in WriteRespKinds : AccountCreateResponse(t, r)
    \/ \E t \in Tasks, r \in SearchRespKinds : ContactSearchResponse(t, r)
    \/ \E t \in Tasks, r \in WriteRespKinds : UpdateResponse(t, r)
    \/ \E t \in Tasks, r \in WriteRespKinds : CreateResponse(t, r)

SpecBatch == InitBatch /\ [][NextBatch]_vars

\* What the destination may hold before an upsert: no, one or two contacts with the
\* email, and accounts of the company's name or of another name.
ExistingContacts ==
    { {},
      {[id |-> 301, Email |-> "john@acme.com", Account_Name |-> NoAccountRef]},
      {[id |-> 301, Email |-> "john@acme.com", Account_Name |-> NoAccountRef],
       [id |-> 302, Email |-> "john@acme.com", Account_Name |-> AccountById(401)]} }

ExistingAccounts ==
    { {},
      {[id |-> 403, name |-> "Acme Inc"]},
      {[id |-> 401, name |-> "Acme"], [id |-> 403, name |-> "Acme Inc"]},
      {[id |-> 401, name |-> "Acme"], [id |-> 402, name |-> "Acme"]} }

\* Callers of createBiginContact against a destination that holds records already.
InitUpsert ==
    /\ InitProcess
    /\ accounts \in ExistingAccounts
    /\ contacts \in ExistingContacts
    /\ hasCredentials = TRUE
    /\ faults = {"ok", "nodata", "e400", "e401", "e500", "network"}
    /\ lifetimes = {0}
    /\ envFile = ConfiguredEnvFile
    /\ FreshToken \/ RefreshedToken
    /\ bpc = "off"
    /\ reqContacts = << >>

NextUpsert ==
    \/ \E t \in UpsertCallers, src \in SourceContacts : StartUpsert(t, src)
    \/ \E t \in Tasks, r \in AuthRespKinds, e \in ExpiresInSet : RefreshResponse(t, r, e)
    \/ \E t \in Tasks, r \in SearchRespKinds : AccountSearchResponse(t, r)
    \/ \E t \in Tasks, r \in WriteRespKinds : AccountCreateResponse(t, r)
    \/ \E t \in Tasks, r \in SearchRespKinds : ContactSearchResponse(t, r)
    \/ \E t \in Tasks, r \in WriteRespKinds : UpdateResponse(t, r)
    \/ \E t \in Tasks, r \in WriteRespKinds : CreateResponse(t, r)

SpecUpsert == InitUpsert /\ [][NextUpsert]_vars

\* The contacts the destination holds while getBiginContacts is called.
ListedContacts ==
    {[id |-> 301, Email |-> "john@acme.com", Account_Name |-> NoAccountRef],
     [id |-> 302, Email |-> "john@acme.com", Account_Name |-> AccountById(401)]}

\* Callers of getBiginContacts over five minutes; an access token lasts an hour, or
\* half a minute after the margin.
InitCache ==
    /\ InitProcess
    /\ accounts = {}
    /\ contacts = ListedContacts
    /\ hasCredentials = TRUE
    /\ faults = {"ok", "e500", "network"}
    /\ lifetimes = ExpiresInSet
    /\ envFile = ConfiguredEnvFile
    /\ FreshToken
    /\ bpc = "off"
    /\ reqContacts = << >>

NextCache ==
    \/ \E t \in CacheCallers, f \in BOOLEAN : StartContacts(t, f)
    \/ \E t \in Tasks, r \in AuthRespKinds, e \in ExpiresInSet : RefreshResponse(t, r, e)
    \/ \E t \in Tasks, r \in ListRespKinds : ContactsListResponse(t, r)
    \/ \E long \in BOOLEAN : CacheTick(long, MaxCacheTicks)

SpecCache == InitCache /\ [][NextCache]_vars

\* Callers of getBiginContacts over five minutes in a process whose access token is
\* valid throughout.
InitStale ==
    /\ InitProcess
    /\ accounts = {}
    /\ contacts = ListedContacts
    /\ hasCredentials = TRUE
    /\ faults = {"ok", "nodata", "e500"}
    /\ lifetimes = {0}
    /\ envFile = ConfiguredEnvFile
    /\ RefreshedToken
    /\ bpc = "off"
    /\ reqContacts = << >>

NextStale ==
    \/ \E t \in StaleCallers, f \in BOOLEAN : StartContacts(t, f)
    \/ \E t \in Tasks, r \in ListRespKinds : ContactsListResponse(t, r)
    \/ \E long \in BOOLEAN : CacheTick(long, MaxStaleTicks)

SpecStale == InitStale /\ [][NextStale]_vars

\* The whole process: a bulk request of a few records, and callers of refreshBiginToken,
\* createBiginContact and getBiginContacts beside it, over a cooldown window.
InitSync ==
    /\ InitCommon
    /\ hasCredentials = TRUE
    /\ faults = {"ok", "throttle"}
    /\ lifetimes = {0}
    /\ envFile = ConfiguredEnvFile
    /\ FreshToken
    /\ bpc = "idle"
    /\ \E n \in 0 .. NSyncRecords : reqContacts = [k \in 1 .. n |-> BatchRecord(k)]

\* The tasks of the calls made beside the bulk request, whose records are tasks 1 .. n.
SyncCallers == (Len(reqContacts) + 1) .. (Len(reqContacts) + NSyncCallers)

\* The contacts of the single syncs: with an email and no company.
SyncSources == {c \in SourceContacts : c.organization_name = ""}

NextSync ==
    \/ BulkRequest
    \/ GroupSettled
    \/ \E t \in SyncCallers : StartToken(t)
    \/ \E t \in SyncCallers, src \in SyncSources : StartUpsert(t, src)
    \/ \E t \in SyncCallers, f \in BOOLEAN : StartContacts(t, f)
    \/ \E t \in Tasks, r \in AuthRespKinds, e \in ExpiresInSet : RefreshResponse(t, r, e)
    \/ \E t \in Tasks, r \in SearchRespKinds : AccountSearchResponse(t, r)
    \/ \E t \in Tasks, r \in WriteRespKinds : AccountCreateResponse(t, r)
    \/ \E t \in Tasks, r \in SearchRespKinds : ContactSearchResponse(t, r)
    \/ \E t \in Tasks, r \in WriteRespKinds : UpdateResponse(t, r)
    \/ \E t \in Tasks, r \in WriteRespKinds : CreateResponse(t, r)
    \/ \E t \in Tasks, r \in ListRespKinds : ContactsListResponse(t, r)
    \/ CacheTick(FALSE, MaxSyncTicks)

SpecSync == InitSync /\ [][NextSync]_vars

\* Callers of getBiginAccounts and createBiginAccount, in a fresh process or after an
\* earlier refresh, the destination answering each request or refusing its token.
InitAccounts ==
    /\ InitCommon
    /\ hasCredentials = TRUE
    /\ faults = {"ok", "e401", "e500", "throttle"}
    /\ lifetimes = {0}
    /\ envFile = ConfiguredEnvFile
    /\ FreshToken \/ RefreshedToken
    /\ bpc = "off"
    /\ reqContacts = << >>

AccountCallers == 1 .. NAccountCallers
AccountNames == {"Acme"}

NextAccounts ==
    \/ \E t \in AccountCallers : StartAccounts(t)
    \/ \E t \in AccountCallers, n \in AccountNames : StartAccountCreate(t, n)
    \/ \E t \in Tasks, r \in AuthRespKinds, e \in ExpiresInSet : RefreshResponse(t, r, e)
    \/ \E t \in Tasks, r \in AccountRespKinds : AccountsListResponse(t, r)
    \/ \E t \in Tasks, r \in AccountRespKinds : AccountPostResponse(t, r)

SpecAccounts == InitAccounts /\ [][NextAccounts]_vars

\* The field mapper, called once for a contact or for an industry label.
InitMapper ==
    /\ InitCommon
    /\ hasCredentials = TRUE
    /\ faults = {}
    /\ lifetimes = {}
    /\ envFile = ConfiguredEnvFile
    /\ FreshToken
    /\ bpc = "off"
    /\ reqContacts = << >>

NextMapper ==
    \/ \E c \in ApolloContacts, today \in Dates : MapContact(c, today)
    \/ \E label \in IndustryLabels : MapIndustry(label)

SpecMapper == InitMapper /\ [][NextMapper]_vars

\* ================================================================ claims

Began(t) == pc[t] # "idle"
RateLimited(t) == ret[t].st = "error" /\ ret[t].error.message = MsgRateLimit
\* Task t begins its call in this step.
Begins(t) == pc[t] = "idle" /\ pc'[t] # "idle"

\* C1: while one refresh is outstanding and no valid token is cached, every other
\* caller of refreshBiginToken shares that refresh: no caller that called meanwhile
\* has failed with the rate-limit error, and one refresh call at most is in flight.
C1_SharedInFlightRefresh ==
    /\ \A t, u \in Tasks :
          (t < u /\ pc[t] = "refresh" /\ Began(u)) => ~RateLimited(u)
    /\ Cardinality({t \in Tasks : pc[t] = "refresh"}) <= 1

\* C2: a refreshBiginToken call made while a token is cached whose expiry is later
\* than now returns that token at once, sends nothing to the auth endpoint and leaves
\* the token, its expiry, the last-attempt timestamp and the .env file as they were.
C2_CachedTokenServed ==
    [][\A t \in Tasks :
          (Begins(t) /\ biginAccessToken # NoToken /\ biginTokenExpiry > now)
          => /\ pc'[t] = "done"
             /\ ret'[t].st = "ok"
             /\ ret'[t].token = biginAccessToken
             /\ calls'[t] = << >>
             /\ authCalls' = authCalls
             /\ tokenVars' = tokenVars]_vars

\* Two calls after the refresh were both served the token the refresh stored.
C2_Witness ==
    \E t, u \in Tasks :
        /\ t < u
        /\ pc[t] = "done" /\ pc[u] = "done"
        /\ ret[t].st = "ok" /\ ret[u].st = "ok"
        /\ calls[t] = << >> /\ calls[u] = << >>
        /\ ret[t].token = ret[u].token
        /\ ret[u].token = biginAccessToken
        /\ biginTokenExpiry > now

\* Task a's refresh call, sent at local[a].now, has failed.
AttemptFailed(a) ==
    /\ pc[a] = "done"
    /\ ret[a].st = "error"
    /\ calls[a] # << >>
    /\ calls[a][1].op = "auth"

\* C3: after a refresh attempt made at time t has failed, every refreshBiginToken
\* call made before t + RATE_LIMIT_COOLDOWN fails with the rate-limit error and sends
\* nothing to the auth endpoint.
C3_BlockedAfterFailedAttempt ==
    [][\A a, u \in Tasks :
          (AttemptFailed(a) /\ Begins(u) /\ now < local[a].now + RATE_LIMIT_COOLDOWN)
          => /\ pc'[u] = "done"
             /\ ret'[u].st = "error"
             /\ ret'[u].error.message = MsgRateLimit
             /\ authCalls' = authCalls]_vars

\* ------------------------------------------------------------ upsert engine
IsUpsert(t) == local[t].kind = "upsert"
Succeeded(t) == pc[t] = "done" /\ ret[t].st = "ok"
Failed(t) == pc[t] = "done" /\ ret[t].st = "error"
\* Every answer task t has received carried the data entry of the API's envelope.
DataInEveryAnswer(t) == \A k \in DOMAIN calls[t] : calls[t][k].res # "nodata"
\* The requests of task t that have op among ops.
CallsOf(t, ops) == {k \in DOMAIN calls[t] : calls[t][k].op \in ops}

\* Tasks a and b are two sequential upserts of one record with an email, the only
\* calls so far that bear this email, both answered by data-bearing responses.
TwoSequentialUpserts(a, b) ==
    /\ a < b
    /\ IsUpsert(a) /\ IsUpsert(b)
    /\ local[a].src = local[b].src
    /\ local[a].src.email # ""
    /\ a \in prior[b]
    /\ Succeeded(a) /\ Succeeded(b)
    /\ DataInEveryAnswer(a) /\ DataInEveryAnswer(b)
    /\ \A c \in Tasks \ {a, b} : Began(c) => local[c].src.email # local[a].src.email

\* C4: from a destination holding no contact for an email, two sequential
\* createBiginContact calls with the same mapped record bearing that email return
\* isUpdate false and then true, report the same id, and leave exactly one contact
\* with the email.
C4_UpsertTwiceIsIdempotent ==
    \A a, b \in Tasks :
        TwoSequentialUpserts(a, b)
        => /\ ~ret[a].isUpdate
           /\ ret[b].isUpdate
           /\ ret[a].id = ret[b].id
           /\ ret[a].id # NoId
           /\ Cardinality(ContactsWithEmail(local[a].src.email)) = 1

C4_Witness ==
    \E a, b \in Tasks :
        /\ TwoSequentialUpserts(a, b)
        /\ ret[b].isUpdate
        /\ Cardinality(ContactsWithEmail(local[a].src.email)) = 1

\* The account-creation request of task t was answered by an error.
AccountCreationFailed(t) ==
    \E k \in DOMAIN calls[t] :
        calls[t][k].op = "acctCreate" /\ calls[t][k].res \in {"e401", "e500"}

\* C5: when the account-creation call of createBiginContact fails, the upsert fails
\* with that error and sends nothing afterwards: no contact search, create or update.
C5_AccountFailureAbortsUpsert ==
    \A t \in Tasks :
        AccountCreationFailed(t)
        => /\ Failed(t)
           /\ ret[t].error = HttpError(calls[t][Len(calls[t])].res)
           /\ calls[t][Len(calls[t])].op = "acctCreate"
           /\ CallsOf(t, {"contactSearch", "update", "create"}) = {}

C5_Witness ==
    \E t \in Tasks :
        /\ AccountCreationFailed(t)
        /\ Failed(t)
        /\ local[t].src.email # ""

NRecords == Len(reqContacts)
CeilDiv(n, b) == (n + b - 1) \div b
\* The group a record position belongs to, counted from 0.
GroupOf(k) == (k - 1) \div batchSize

\* Task t has a request in flight, whose answer resumes it.
AwaitsAnswer(t) ==
    /\ pc[t] \in {"refresh", "acctSearch", "acctCreate", "contactSearch", "update", "create"}
    /\ calls[t] # << >>
    /\ calls[t][Len(calls[t])].res = "pending"

\* C7: whichever upserts fail, the bulk loop is never stuck before it has answered (each
\* upsert of the running group has settled or has a request in flight, and the loop
\* goes on once all have settled), and its answer lists one entry per input record, in which a record whose upsert
\* failed has success = false and the error's message and every other record has
\* success = true.
C7_BatchIsolatesFailures ==
    /\ bpc = "await"
       => \A t \in BatchSlice(i, NRecords).lo .. BatchSlice(i, NRecords).hi :
             pc[t] = "done" \/ AwaitsAnswer(t)
    /\ bpc = "done"
       => /\ response.status = 200
          /\ Len(response.results) = NRecords
          /\ \A k \in 1 .. NRecords :
                /\ pc[k] = "done"
                /\ response.results[k].success = (ret[k].st = "ok")
                /\ ret[k].st = "error"
                   => response.results[k].message = ret[k].error.message

\* Twelve records, one of which failed, and the other eleven report success.
C7_Witness ==
    /\ bpc = "done"
    /\ NRecords = 12
    /\ Cardinality({k \in 1 .. 12 : ret[k].st = "error"}) = 1
    /\ Cardinality({k \in 1 .. 12 : response.results[k].success}) = 11

\* C8: over n records the bulk loop starts exactly ceil(n / batchSize) groups, which
\* cut the input in order into runs of batchSize records (the last may be shorter),
\* and it waits for the delay ceil(n / batchSize) - 1 times, never after the last
\* group: 3 groups and 2 delays for 12 records.
C8_GroupsAndDelays ==
    /\ \A g \in DOMAIN groups :
          /\ groups[g].lo = (g - 1) * batchSize + 1
          /\ groups[g].hi = Min(g * batchSize, NRecords)
          /\ groups[g].lo <= groups[g].hi
    /\ Len(groups) <= CeilDiv(NRecords, batchSize)
    /\ delays = IF bpc = "await" THEN Len(groups) - 1
                ELSE IF bpc = "delay" THEN Len(groups) - 1
                ELSE IF bpc = "done" THEN Len(groups) - 1
                ELSE 0
    /\ bpc = "done"
       => /\ Len(groups) = CeilDiv(NRecords, batchSize)
          /\ delays = CeilDiv(NRecords, batchSize) - 1
          /\ NRecords = 12 => Len(groups) = 3 /\ delays = 2

C8_Witness ==
    /\ bpc = "done"
    /\ NRecords = 12
    /\ groups = <<[lo |-> 1, hi |-> 5], [lo |-> 6, hi |-> 10], [lo |-> 11, hi |-> 12]>>
    /\ delays = 2

\* C9: no upsert of a later group has begun while an upsert of an earlier group is
\* unsettled, so at most batchSize upserts are in flight; those of one group may all
\* be in flight together.
C9_GroupsRunOneAtATime ==
    /\ \A t, u \in 1 .. NRecords :
          (GroupOf(t) < GroupOf(u) /\ Began(u)) => pc[t] = "done"
    /\ Cardinality({t \in Tasks : Pending(Frame, t)}) <= batchSize

\* The five upserts of the second group are in flight at once.
C9_Witness ==
    /\ NRecords >= 2 * batchSize
    /\ \A t \in (batchSize + 1) .. (2 * batchSize) : Pending(Frame, t)

\* C10: whatever order the upserts of a group settle in, the k-th entry of the
\* results list is the outcome of the k-th input record.
C10_ResultsInInputOrder ==
    /\ Len(results) <= NRecords
    /\ \A k \in DOMAIN results :
          /\ results[k].id = reqContacts[k].id
          /\ results[k].email = reqContacts[k].email
          /\ results[k].bigin_id = ret[k].id
          /\ results[k].success = (ret[k].st = "ok")

\* The answer is complete after some upsert settled before one that began earlier.
C10_Witness ==
    /\ overtaken
    /\ bpc = "done"
    /\ NRecords > batchSize
    /\ Len(response.results) = NRecords
    /\ \E k \in DOMAIN results : results[k].success

\* The mapped fields of task t's record, its account reference rebound to the id that
\* account resolution found or created.
MappedWithAccount(t) ==
    LET m == mapApolloContactToBigin(local[t].src)
    IN IF local[t].accountId # NoId
       THEN [m EXCEPT !.Account_Name = AccountById(local[t].accountId)]
       ELSE m

\* Request k of task t is an email search that was answered with one match or more.
SearchFoundMatches(t, k) ==
    /\ k \in DOMAIN calls[t]
    /\ calls[t][k].op = "contactSearch"
    /\ calls[t][k].res = "ok"
    /\ calls[t][k].data # << >>

\* C11: when the contact has an email and the email search lists one match or more,
\* createBiginContact sends one update, to the id of the first match listed and with
\* all mapped fields (the account reference rebound); the update changes no other
\* record of the destination; and once the update is answered with its data entry the
\* call returns the id of the first match with isUpdate = true.
C11_UpdatesFirstMatchOnly ==
    /\ [](\A t \in Tasks : \A k \in DOMAIN calls[t] :
            SearchFoundMatches(t, k) =>
               /\ local[t].contactData.Email # ""
               /\ Cardinality(CallsOf(t, {"update"})) = 1
               /\ k + 1 \in DOMAIN calls[t]
               /\ calls[t][k + 1].op = "update"
               /\ calls[t][k + 1].target = calls[t][k].data[1]
               /\ calls[t][k + 1].body = MappedWithAccount(t)
               /\ calls[t][k + 1].res = "ok" =>
                      /\ Succeeded(t)
                      /\ ret[t].id = calls[t][k].data[1]
                      /\ ret[t].isUpdate)
    /\ [][\A t \in Tasks :
             (pc[t] = "update" /\ pc'[t] # "update") =>
                \A c \in contacts : c.id # local[t].contactId => c \in contacts']_vars

\* An upsert found two contacts with its email, updated the first listed and returned
\* its id; the second is as it was.
C11_Witness ==
    \E t \in Tasks : \E k \in DOMAIN calls[t] :
        /\ SearchFoundMatches(t, k)
        /\ Len(calls[t][k].data) = 2
        /\ Succeeded(t)
        /\ ret[t].isUpdate
        /\ ret[t].id = calls[t][k].data[1]
        /\ \E c \in contacts \cap UNION ExistingContacts : c.id = calls[t][k].data[2]
        /\ \E c \in contacts \ UNION ExistingContacts : c.id = calls[t][k].data[1]

\* Request k of task t is an email search that was answered with no match.
SearchFoundNone(t, k) ==
    /\ k \in DOMAIN calls[t]
    /\ calls[t][k].op = "contactSearch"
    /\ calls[t][k].res = "ok"
    /\ calls[t][k].data = << >>

\* Task t has its token and is past account resolution, which did not fail.
PastAccountResolution(t) ==
    /\ local[t].token # NoToken
    /\ pc[t] \notin {"acctSearch", "acctCreate"}
    /\ \A k \in CallsOf(t, {"acctSearch", "acctCreate"}) : calls[t][k].res \in {"ok", "nodata"}

\* C12: when the contact has no email, or the email search lists no match,
\* createBiginContact sends no update and one creation, right after account resolution
\* or the search, whose body is all mapped fields with the account reference as
\* resolved; once the creation is answered with its data entry the call returns the
\* new contact's id, with no isUpdate flag.
C12_CreatesWhenNoMatch ==
    \A t \in Tasks :
        IsUpsert(t) =>
           /\ local[t].contactData.Email = "" =>
                 /\ CallsOf(t, {"contactSearch", "update"}) = {}
                 /\ PastAccountResolution(t) => Cardinality(CallsOf(t, {"create"})) = 1
           /\ \A k \in DOMAIN calls[t] :
                 SearchFoundNone(t, k) =>
                    /\ CallsOf(t, {"update"}) = {}
                    /\ Cardinality(CallsOf(t, {"create"})) = 1
                    /\ k + 1 \in CallsOf(t, {"create"})
           /\ (local[t].contactData.Email = "" \/ \E k \in DOMAIN calls[t] : SearchFoundNone(t, k)) =>
                 \A k \in CallsOf(t, {"create"}) :
                    /\ calls[t][k].body = MappedWithAccount(t)
                    /\ calls[t][k].target = NoId
                    /\ calls[t][k].res = "ok" =>
                          /\ Succeeded(t)
                          /\ ret[t].id = NewContactId(t)
                          /\ ~ret[t].isUpdate
                          /\ \E c \in contacts : c.id = ret[t].id

\* An upsert whose email search found nothing created the contact, with the id of the
\* account it had found, and returned the new id.
C12_Witness ==
    \E t \in Tasks : \E k \in DOMAIN calls[t] :
        /\ SearchFoundNone(t, k)
        /\ Succeeded(t)
        /\ ret[t].id = NewContactId(t)
        /\ ~ret[t].isUpdate
        /\ calls[t][k + 1].body.Account_Name.tag = "id"
        /\ [id |-> ret[t].id, Email |-> local[t].src.email,
            Account_Name |-> AccountById(local[t].accountId)] \in contacts

\* The account name the mapped record of task t refers to ("" when it has none).
AccountNameOf(t) == mapApolloContactToBigin(local[t].src).Account_Name.name
ContactOps == {"contactSearch", "update", "create"}
AccountOps == {"acctSearch", "acctCreate"}

\* C13: for a contact that refers to its account by name, every contact search, update
\* or creation of the call comes after the account search and creation, all answered;
\* an account search that lists accounts of the name is followed by no account
\* creation and the first listed is used; one that lists none is followed by one
\* creation, of an account with this name only; and once an account was found or
\* created, every contact body sent refers to it by its id.
C13_AccountResolvedFirst ==
    /\ [](\A t \in Tasks :
            (IsUpsert(t) /\ AccountNameOf(t) # "") =>
               /\ CallsOf(t, ContactOps) # {} =>
                     /\ CallsOf(t, {"acctSearch"}) # {}
                     /\ \A a \in CallsOf(t, AccountOps), c \in CallsOf(t, ContactOps) :
                           a < c /\ calls[t][a].res # "pending"
               /\ \A k \in CallsOf(t, {"acctSearch"}) :
                     /\ (calls[t][k].res = "ok" /\ calls[t][k].data # << >>) =>
                           /\ CallsOf(t, {"acctCreate"}) = {}
                           /\ local[t].accountId = calls[t][k].data[1]
                           /\ [id |-> local[t].accountId, name |-> AccountNameOf(t)] \in accounts
                     /\ (calls[t][k].res = "ok" /\ calls[t][k].data = << >>) =>
                           /\ Cardinality(CallsOf(t, {"acctCreate"})) = 1
                           /\ calls[t][k + 1].op = "acctCreate"
                           /\ calls[t][k + 1].account = AccountNameOf(t)
                           /\ calls[t][k + 1].res = "ok" =>
                                 /\ local[t].accountId = NewAccountId(t)
                                 /\ [id |-> NewAccountId(t), name |-> AccountNameOf(t)] \in accounts
               /\ local[t].accountId # NoId =>
                     \A c \in CallsOf(t, {"update", "create"}) :
                        calls[t][c].body.Account_Name = AccountById(local[t].accountId))
    /\ [][\A t \in Tasks :
             (pc[t] = "acctSearch" /\ pc'[t] \notin {"acctSearch", "done"}) =>
                IF AccountsNamed(local[t].contactData.Account_Name.name) # {}
                THEN /\ pc'[t] # "acctCreate"
                     /\ accounts' = accounts
                     /\ \E a \in AccountsNamed(local[t].contactData.Account_Name.name) :
                           local'[t].accountId = a.id
                ELSE pc'[t] = "acctCreate"]_vars

\* An upsert found no account of its company's name beside one of another name,
\* created the account, then created the contact with the new account's id.
C13_Witness ==
    \E t \in Tasks :
        /\ Succeeded(t)
        /\ AccountNameOf(t) = "Acme"
        /\ Cardinality(CallsOf(t, {"acctCreate"})) = 1
        /\ local[t].accountId = NewAccountId(t)
        /\ {a \in accounts : a.name = "Acme"} = {[id |-> NewAccountId(t), name |-> "Acme"]}
        /\ \E a \in accounts : a.name # "Acme"
        /\ \E c \in contacts : c.id = ret[t].id /\ c.Account_Name = AccountById(NewAccountId(t))

\* ------------------------------------------------------------ token manager
\* The request task t sent last.
LastCall(t) == calls[t][Len(calls[t])]

\* C14: when a refresh that began at time T is answered with an access token and
\* expires_in = s, the token is stored and returned to the caller, and the expiry
\* becomes T + s * 1000 - 300000, whenever the answer arrives.
C14_ExpiryFromResponse ==
    [][\A t \in Tasks :
          (pc[t] = "refresh" /\ LastCall(t)' .res = "ok") =>
             /\ biginAccessToken' = IssuedToken(t)
             /\ local[t].kind = "token" => (pc'[t] = "done" /\ ret'[t].st = "ok"
                                             /\ ret'[t].token = IssuedToken(t))
             /\ LastCall(t)' .expires_in > 0 =>
                   biginTokenExpiry' = local[t].now + LastCall(t)' .expires_in * 1000 - 300000]_vars

\* A refresh begun one clock step before its answer stored the token, with the expiry
\* counted from its beginning.
C14_Witness ==
    \E t \in Tasks :
        /\ Succeeded(t)
        /\ calls[t] # << >>
        /\ LastCall(t).op = "auth"
        /\ LastCall(t).expires_in = 330
        /\ LastCall(t).answered > local[t].now
        /\ biginAccessToken = IssuedToken(t)
        /\ ret[t].token = IssuedToken(t)
        /\ biginTokenExpiry = local[t].now + 30000

\* The refresh call of task t was answered with a failure of kind r.
RefreshFailedAs(t, r) ==
    /\ pc[t] = "done"
    /\ calls[t] # << >>
    /\ LastCall(t).op = "auth"
    /\ LastCall(t).res = r

\* C15: a failed refresh call reaches the caller as one of three outcomes that can be
\* told apart: a throttling answer as the rate-limit error that a cooldown block
\* raises, an answer that says the refresh token is invalid as an error of its own,
\* and any other failure as an error different from both.
C15_RefreshFailureClassified ==
    \A t \in Tasks :
        /\ RefreshFailedAs(t, "throttle") => RateLimited(t)
        /\ \A u \in Tasks, r \in {"notoken", "other", "network"} :
              (RefreshFailedAs(t, "invalid") /\ RefreshFailedAs(u, r)) =>
                 /\ ret[t].st = "error" /\ ret[u].st = "error"
                 /\ ret[t].error # ret[u].error
                 /\ ~RateLimited(t) /\ ~RateLimited(u)

\* C16: after the auth endpoint has answered a refresh with a throttling error at time
\* t, every refreshBiginToken call made before t + RATE_LIMIT_COOLDOWN sends no refresh
\* call and fails with the rate-limit error.
C16_ThrottleExtendsCooldown ==
    [][\A a, u \in Tasks :
          (RefreshFailedAs(a, "throttle") /\ Begins(u)
             /\ now < LastCall(a).answered + RATE_LIMIT_COOLDOWN)
          => /\ authCalls' = authCalls
             /\ pc'[u] = "done"
             /\ ret'[u].st = "error"
             /\ ret'[u].error.message = MsgRateLimit]_vars

\* The lines of the .env file env that set other keys than key, in their order.
OtherLines(env, key) == SelectSeq(env.lines, LAMBDA l : l.key # key)
HasKey(env, key) == \E k \in DOMAIN env.lines : env.lines[k].key = key

\* What a successful refresh that issued tok has made of the .env file old: new holds
\* the token under its key, in the line where the key was or in a line appended, and
\* every other line as it was.
TokenPersisted(old, new, tok) ==
    /\ new.exists
    /\ [key |-> "BIGIN_ACCESS_TOKEN", value |-> tok] =
          new.lines[FirstIndexOf(new.lines, "BIGIN_ACCESS_TOKEN", 1)]
    /\ OtherLines(new, "BIGIN_ACCESS_TOKEN") = OtherLines(old, "BIGIN_ACCESS_TOKEN")
    /\ IF HasKey(old, "BIGIN_ACCESS_TOKEN")
       THEN /\ Len(new.lines) = Len(old.lines)
            /\ \A k \in DOMAIN old.lines : new.lines[k].key = old.lines[k].key
       ELSE new.lines = Append(old.lines, [key |-> "BIGIN_ACCESS_TOKEN", value |-> tok])

IsContacts(t) == local[t].kind = "contacts"
\* Task t begins a call of getBiginContacts in this step.
BeginsContacts(t) == Begins(t) /\ local'[t].kind = "contacts"

\* The live fetch of task t fails in this step: its token refresh is blocked by the
\* token cooldown or answered with a failure, or its list call is answered with one.
FetchFails(t) ==
    /\ local'[t].kind = "contacts"
    /\ pc[t] # "done" /\ pc'[t] = "done"
    /\ \/ pc[t] = "idle" /\ lastContactsFetch' # lastContactsFetch
       \/ pc[t] \in {"refresh", "list"} /\ LastCall(t)' .res \notin {"ok", "nodata"}

\* C18: when the live fetch of a getBiginContacts call fails, in its token refresh or
\* in its list call, the call returns the cached list if there is one, which stays as
\* it is, and fails with the error only if there is none.
C18_StaleCacheOnFailure ==
    [][\A t \in Tasks :
          FetchFails(t) =>
             IF biginContacts.cached
             THEN /\ ret'[t].st = "ok"
                  /\ ret'[t].list = biginContacts.list
                  /\ biginContacts' = biginContacts
             ELSE /\ ret'[t].st = "error"
                  /\ ret'[t].error # NoErr
                  /\ biginContacts' = biginContacts]_vars

\* A forced call made a cooldown window after a successful fetch had its token refresh
\* fail and returned the cached list.
C18_Witness ==
    \E t, u \in Tasks :
        /\ t < u
        /\ IsContacts(t) /\ IsContacts(u)
        /\ Succeeded(t) /\ CallsOf(t, {"list"}) # {} /\ LastCall(t).res = "ok"
        /\ Succeeded(u)
        /\ calls[u] # << >>
        /\ LastCall(u).op = "auth" /\ LastCall(u).res = "network"
        /\ biginContacts.cached
        /\ Len(biginContacts.list) = 2
        /\ ret[u].list = biginContacts.list

\* C19: getBiginContacts makes one live fetch at most per cooldown window: a call made
\* less than RATE_LIMIT_COOLDOWN after an earlier call went to the network, forced or
\* not, sends nothing and returns the cached list, or the empty list if none is
\* cached; and no two calls that sent a list request began within one window.
C19_OneFetchPerWindow ==
    /\ [][\A t, u \in Tasks :
             (IsContacts(u) /\ calls[u] # << >> /\ BeginsContacts(t)
                /\ now < local[u].now + RATE_LIMIT_COOLDOWN)
             => /\ pc'[t] = "done"
                /\ calls'[t] = << >>
                /\ authCalls' = authCalls
                /\ ret'[t].st = "ok"
                /\ ret'[t].list = (IF biginContacts.cached THEN biginContacts.list ELSE << >>)
                /\ UNCHANGED <<biginContacts, lastContactsFetch, tokenVars>>]_vars
    /\ [](\A t, u \in Tasks :
            (t < u /\ IsContacts(t) /\ IsContacts(u)
               /\ CallsOf(t, {"list"}) # {} /\ CallsOf(u, {"list"}) # {})
            => local[u].now >= local[t].now + RATE_LIMIT_COOLDOWN)

\* A forced call made while the first call's fetch was not a cooldown window old sent
\* nothing and returned the list that fetch had cached.
C19_Witness ==
    \E t, u \in Tasks :
        /\ t < u
        /\ IsContacts(t) /\ IsContacts(u)
        /\ Succeeded(t) /\ CallsOf(t, {"list"}) # {} /\ LastCall(t).res = "ok"
        /\ t \in prior[u]
        /\ local[u].forceRefresh
        /\ local[u].now < local[t].now + RATE_LIMIT_COOLDOWN
        /\ Succeeded(u)
        /\ calls[u] = << >>
        /\ Len(ret[u].list) = 2
        /\ ret[u].list = biginContacts.list

\* The calls of getBiginContacts whose list request was answered with the records.
Fetchers ==
    {u \in Tasks : IsContacts(u) /\ \E k \in CallsOf(u, {"list"}) : calls[u][k].res = "ok"}

\* fetched_at: when the latest of the calls that fetched the records began.
FetchedAt ==
    IF Fetchers = {} THEN 0
    ELSE local[CHOOSE u \in Fetchers : \A v \in Fetchers : local[v].now <= local[u].now].now

\* An earlier call went to the network less than a cooldown window ago.
FetchBlocked ==
    \E u \in Tasks :
        IsContacts(u) /\ calls[u] # << >> /\ now < local[u].now + RATE_LIMIT_COOLDOWN

\* C20: a getBiginContacts call that is not forced, made while a list is cached whose
\* records were fetched less than 5 minutes ago, returns the cached list and sends no
\* list request and no refresh call; any other call (forced, records 5 minutes old or
\* older, nothing cached) attempts a live fetch unless the fetch cooldown blocks it.
C20_FreshCacheElseFetch ==
    [][\A t \in Tasks :
          BeginsContacts(t) =>
             IF ~local'[t].forceRefresh /\ biginContacts.cached
                /\ now - FetchedAt < 5 * 60 * 1000
             THEN /\ pc'[t] = "done"
                  /\ ret'[t].st = "ok"
                  /\ ret'[t].list = biginContacts.list
                  /\ calls'[t] = << >>
                  /\ authCalls' = authCalls
                  /\ UNCHANGED <<biginContacts, tokenVars>>
             ELSE \/ FetchBlocked
                  \/ calls'[t] # << >>
                  \/ lastContactsFetch' = now]_vars

\* Task t's list request is answered with the records in this step.
FetchSucceeds(t) == pc[t] = "list" /\ LastCall(t)' .res = "ok"

\* C21: the cached contact list changes only when a live fetch of getBiginContacts is
\* answered with the records, which replace it as a whole; no other step, and no
\* createBiginContact that creates a contact in particular, adds, removes or changes a
\* cached record.
C21_CacheReplacedOnlyByFetch ==
    [][(biginContacts' # biginContacts) => \E t \in Tasks : FetchSucceeds(t)]_vars

\* ------------------------------------------------------------ request handlers
\* Task t is the call a request handler awaits inside its try block: refreshBiginToken
\* for the contact list and the contact search, createBiginContact for the single sync.
BoundaryCall(t) == t > Len(reqContacts) /\ local[t].kind \in {"token", "upsert"}

\* The call of task t failed because the token manager was rate limited: blocked by its
\* cooldown, or throttled by the auth endpoint.
RateLimitFailure(t) == Failed(t) /\ (RateLimited(t) \/ RefreshFailedAs(t, "throttle"))

\* C22: when the call a request handler awaits (list contacts, search contacts, single
\* sync) fails because the token manager is rate limited, by its own cooldown or by the
\* auth endpoint's throttling, the handler answers with status 429 and not with 500.
C22_RateLimitAnswered429 ==
    \A t \in Tasks :
        (BoundaryCall(t) /\ RateLimitFailure(t)) => ErrorStatus(ret[t].error) = 429

\* ------------------------------------------------------------ field mapper
\* The value of field f of the source contact c, the empty string if it has none.
SourceField(c, f) == IF f \in DOMAIN c THEN c[f] ELSE << >>

\* The part of an email address before its "@".
LocalPart(email) ==
    LET at == CHOOSE k \in 1 .. (Len(email) + 1) :
                  /\ k = Len(email) + 1 \/ email[k] = "@"
                  /\ \A j \in 1 .. (k - 1) : email[j] # "@"
    IN SubSeq(email, 1, at - 1)

\* The first of the values vs that is not the empty string.
FirstNonEmpty(vs) ==
    vs[CHOOSE k \in DOMAIN vs : vs[k] # << >> /\ \A j \in 1 .. (k - 1) : vs[j] = << >>]

\* C23: the contact mapApolloContactToBigin returns has a Last_Name that is not empty
\* and is the first non-empty value of the source's last_name, its first_name, the
\* local part of its email and the literal "Unknown".
C23_LastNameFallback ==
    mapped = "contact" =>
       /\ "Last_Name" \in DOMAIN biginContact
       /\ biginContact["Last_Name"] # << >>
       /\ biginContact["Last_Name"] =
             FirstNonEmpty(<<SourceField(apolloContact, "last_name"),
                             SourceField(apolloContact, "first_name"),
                             LocalPart(SourceField(apolloContact, "email")),
                             <<"U", "n", "k", "n", "o", "w", "n">>>>)

\* A contact with an empty last_name, no first_name and the email bob@x.com was given
\* the Last_Name "bob".
C23_Witness ==
    /\ mapped = "contact"
    /\ "last_name" \in DOMAIN apolloContact
    /\ apolloContact["last_name"] = << >>
    /\ "first_name" \notin DOMAIN apolloContact
    /\ SourceField(apolloContact, "email") = <<"b", "o", "b", "@", "x", ".", "c", "o", "m">>
    /\ biginContact["Last_Name"] = <<"b", "o", "b">>

\* The keys of the industry table, and the value the table gives for one of them.
TableKeys == {INDUSTRY_MAPPING[k][1] : k \in DOMAIN INDUSTRY_MAPPING}
TableValue(key) ==
    INDUSTRY_MAPPING[CHOOSE k \in DOMAIN INDUSTRY_MAPPING : INDUSTRY_MAPPING[k][1] = key][2]

\* Table key and label, compared without regard to case: one contains the other.
ContainsEitherWay(key, label) ==
    \/ Includes(toLowerCase(label), toLowerCase(key))
    \/ Includes(toLowerCase(key), toLowerCase(label))

\* C24: mapIndustry returns a string for every label; the empty string for the empty
\* label; else the table's value when the label is a key of the table; else the value of
\* a key that contains the label or is contained in it, case ignored; else the label.
C24_IndustryLookup ==
    mapped = "industry" =>
       /\ IsString(mappedIndustry)
       /\ IF apolloIndustry = << >>
          THEN mappedIndustry = << >>
          ELSE IF apolloIndustry \in TableKeys
          THEN mappedIndustry = TableValue(apolloIndustry)
          ELSE IF \E key \in TableKeys : ContainsEitherWay(key, apolloIndustry)
          THEN \E key \in TableKeys :
                  /\ ContainsEitherWay(key, apolloIndustry)
                  /\ mappedIndustry = TableValue(key)
          ELSE mappedIndustry = apolloIndustry

\* The optional fields of a Bigin contact, each with the source fields it is taken from.
OptionalFields ==
    { <<"First_Name", {"first_name"}>>,
      <<"Email", {"email"}>>,
      <<"Phone", {"phone_number", "corporate_phone", "work_direct_phone"}>>,
      <<"Title", {"title"}>>,
      <<"Industry_Drop", {"industry"}>>,
      <<"Account_Name", {"organization_name"}>>,
      <<"LinkedIn", {"linkedin_url"}>>,
      <<"Twitter", {"twitter_url"}>> }

AddressFields ==
    { <<"Mailing_City", "city">>, <<"Mailing_State", "state">>, <<"Mailing_Country", "country">> }

\* C25: the contact mapApolloContactToBigin returns has no optional field whose source
\* field is absent (none is there as an empty string), except for the city, the state
\* and the country, which are there all three, empty where the source has none, exactly
\* when the source has one of them at least.
C25_AbsentFieldsOmitted ==
    mapped = "contact" =>
       /\ \A p \in OptionalFields :
             (\A f \in p[2] : ~Has(apolloContact, f)) => p[1] \notin DOMAIN biginContact
       /\ IF \E a \in AddressFields : Has(apolloContact, a[2])
          THEN \A a \in AddressFields :
                  /\ a[1] \in DOMAIN biginContact
                  /\ biginContact[a[1]] = SourceField(apolloContact, a[2])
          ELSE \A a \in AddressFields : a[1] \notin DOMAIN biginContact

\* ------------------------------------------------------------ bulk sync loop
\* The entries of the answer's results list whose success flag is flag.
EntriesWhere(flag) == {k \in DOMAIN response.results : response.results[k].success = flag}

\* C26: in the answer of the bulk handler the summary's total is the number of input
\* records and is the sum of its success and error counts, which are the numbers of
\* result entries with success true and with success false.
C26_SummaryAddsUp ==
    bpc = "done" =>
       /\ response.summary.total = Len(reqContacts)
       /\ response.summary.total = response.summary.success + response.summary.error
       /\ response.summary.success = Cardinality(EntriesWhere(TRUE))
       /\ response.summary.error = Cardinality(EntriesWhere(FALSE))

\* Twelve records were answered with nine successes and three failures.
C26_Witness ==
    /\ bpc = "done"
    /\ Len(reqContacts) = 12
    /\ response.summary = [total |-> 12, success |-> 9, error |-> 3]
    /\ Cardinality(EntriesWhere(FALSE)) = 3

\* ------------------------------------------------------------ upsert engine
DestinationOps == {"acctSearch", "acctCreate", "contactSearch", "update", "create"}
\* Request k of task t is a destination call that failed with another error than 401.
FailedNonAuth(t, k) ==
    /\ k \in DOMAIN calls[t]
    /\ calls[t][k].op \in DestinationOps
    /\ calls[t][k].res \in {"e400", "e500"}

\* C27: when a destination call of createBiginContact fails with a validation error or
\* a server error, that operation has been sent once, it is the last request of the
\* call, and the call fails with that error.
C27_NonAuthErrorNotRetried ==
    \A t \in Tasks : \A k \in DOMAIN calls[t] :
        (IsUpsert(t) /\ FailedNonAuth(t, k)) =>
           /\ Cardinality(CallsOf(t, {calls[t][k].op})) = 1
           /\ k = Len(calls[t])
           /\ Failed(t)
           /\ ret[t].error = HttpError(calls[t][k].res)
           /\ ret[t].error.status \in {400, 500}

\* An upsert found its account and a contact with its email, and its update was
\* rejected as invalid: it failed with that error and created nothing.
C27_Witness ==
    \E t \in Tasks :
        /\ IsUpsert(t)
        /\ Failed(t)
        /\ Len(calls[t]) = 3
        /\ calls[t][1].op = "acctSearch" /\ calls[t][1].res = "ok"
        /\ calls[t][2].op = "contactSearch" /\ calls[t][2].res = "ok"
        /\ calls[t][3].op = "update" /\ calls[t][3].res = "e400"
        /\ ret[t].error = Err(MsgHttp400, 400)
        /\ contacts \in ExistingContacts

\* ------------------------------------------------------------ token manager
\* The refresh call of task t is answered with a token in this step.
TokenRefreshed(t) == pc[t] = "refresh" /\ calls'[t][Len(calls[t])].res = "ok"

\* C28: the cached access token and its expiry change only in the step in which a
\* refresh call is answered with a token, and then to that token and its expiry: a
\* refresh that fails, a call blocked by the cooldown, the destination calls of
\* createBiginContact, getBiginContacts and the bulk loop leave them as they are.
C28_TokenChangedOnlyByRefresh ==
    [][(<<biginAccessToken, biginTokenExpiry>>' # <<biginAccessToken, biginTokenExpiry>>) =>
          \E t \in Tasks :
             /\ TokenRefreshed(t)
             /\ biginAccessToken' = IssuedToken(t)
             /\ biginTokenExpiry' =
                   TokenExpiry(local[t].now, calls'[t][Len(calls[t])].expires_in)]_vars

\* The refresh of the bulk request's upsert was throttled, leaving the token as loaded;
\* a cooldown window later a single sync refreshed the token and created its contact, a
\* getBiginContacts cached the list, and the token is the one that refresh stored.
C28_Witness ==
    \E a, c, d \in Tasks :
        /\ bpc = "done"
        /\ IsUpsert(a) /\ RefreshFailedAs(a, "throttle")
        /\ IsUpsert(c) /\ Succeeded(c) /\ calls[c][1].op = "auth" /\ calls[c][1].res = "ok"
        /\ CallsOf(c, {"create"}) # {}
        /\ IsContacts(d) /\ Succeeded(d) /\ biginContacts.cached
        /\ biginAccessToken = IssuedToken(c)
        /\ biginTokenExpiry = TokenExpiry(local[c].now, 0)

\* --------------------------------------------------------- account functions
IsAccountCall(t) == local[t].kind \in {"accounts", "accountCreate"}
AccountRequests(t) == CallsOf(t, {"accountsList", "accountPost"})
\* Every request of task t the destination has answered, it answered with 401.
PersistentAuthFailure(t) ==
    \A k \in AccountRequests(t) : calls[t][k].res \in {"pending", "e401"}

\* C29: while every request of a getBiginAccounts or createBiginAccount call is answered
\* 401, the call sends at most two requests to the destination (the first and one
\* retry) and refreshes the token at most once, and it has failed with an error once
\* the second request is answered.
C29_AccountRetryBounded ==
    \A t \in Tasks :
        (IsAccountCall(t) /\ PersistentAuthFailure(t)) =>
           /\ Cardinality(AccountRequests(t)) <= 2
           /\ Cardinality(CallsOf(t, {"auth"})) <= 1
           /\ (\E k \in AccountRequests(t) : k > 1 /\ calls[t][k].res = "e401") => Failed(t)

\* ------------------------------------------------------- leaving the cooldown
\* The cooldown window since the last refresh attempt has elapsed.
CooldownElapsed == now - lastTokenRefresh >= RATE_LIMIT_COOLDOWN
NoValidToken == ~(biginAccessToken # NoToken /\ biginTokenExpiry # NoExpiry
                                             /\ biginTokenExpiry > now)
\* Task t begins a call of refreshBiginToken in this step and sends a refresh request.
AttemptsRefresh(t) ==
    /\ pc'[t] = "refresh"
    /\ authCalls' = Append(authCalls, [task |-> t, at |-> now])
    /\ lastTokenRefresh' = now
\* After this step the manager holds a token whose expiry is later than the clock.
ValidAfterStep ==
    biginAccessToken' # NoToken /\ biginTokenExpiry' # NoExpiry /\ biginTokenExpiry' > now'

\* C30 as stated: once the cooldown window since the last refresh attempt has elapsed,
\* the next refreshBiginToken call made with no valid cached token sends a refresh
\* request, and a successful answer to a refresh leaves the manager with a valid token.
C30_Original ==
    [][/\ \A t \in Tasks :
            (Begins(t) /\ NoValidToken /\ CooldownElapsed) => AttemptsRefresh(t)
       /\ \A t \in Tasks : TokenRefreshed(t) => ValidAfterStep]_vars

\* C30: when the client credentials are configured, a refreshBiginToken call made with
\* no valid cached token once the cooldown window since the last refresh attempt has
\* elapsed sends a refresh request; and a successful answer that arrives before the
\* call's start time + expires_in * 1000 - 300000 leaves the manager with a valid token.
C30_CooldownNotPermanent ==
    [][/\ \A t \in Tasks :
            (Begins(t) /\ hasCredentials /\ NoValidToken /\ CooldownElapsed)
               => AttemptsRefresh(t)
       /\ \A t \in Tasks :
            (TokenRefreshed(t)
               /\ now < TokenExpiry(local[t].now, calls'[t][Len(calls[t])].expires_in))
               => ValidAfterStep]_vars

\* A refresh failed, a call within its cooldown was blocked, and a call made once the
\* window had elapsed was answered with a token, which is valid now.
C30_Witness ==
    \E a, b, c \in Tasks :
        /\ a < b /\ b < c
        /\ Failed(a) /\ CallsOf(a, {"auth"}) # {}
        /\ Failed(b) /\ RateLimited(b) /\ calls[b] = << >>
        /\ Succeeded(c) /\ calls[c] # << >> /\ calls[c][1].res = "ok"
        /\ local[c].now - authCalls[1].at >= RATE_LIMIT_COOLDOWN
        /\ ~NoValidToken

\* ------------------------------------------------------ the persisted token
\* No call of the process has begun yet.
NoCallYet == \A u \in Tasks : pc[u] = "idle"

\* C31: in a process that was started with a persisted access token (the .env file
\* holds no expiry, so the token is taken as not yet expired), the first call of
\* refreshBiginToken returns that token and sends no request to the auth endpoint.
C31_FirstCallServedFromPersistedToken ==
    [][\A t \in Tasks :
          (NoCallYet /\ Begins(t) /\ local'[t].kind = "token" /\ envAccessToken # NoToken)
             => /\ authCalls' = authCalls
                /\ pc'[t] = "done"
                /\ ret'[t].st = "ok"
                /\ ret'[t].token = envAccessToken]_vars

\* ------------------------------------------------- spacing of refresh calls
\* C32: any two requests sent to the auth endpoint, by whichever callers and in
\* whichever interleaving, start at least one cooldown window (60 s) apart, and when a
\* request is sent the attempt timestamp already is the time it is sent at.
C32_RefreshCallsSpaced ==
    /\ \A j, k \in DOMAIN authCalls :
          j < k => authCalls[k].at - authCalls[j].at >= RATE_LIMIT_COOLDOWN
    /\ \A t \in Tasks :
          (pc[t] = "refresh" /\ authCalls[Len(authCalls)].task = t)
             => lastTokenRefresh >= authCalls[Len(authCalls)].at

\* Two callers have sent a refresh request each, the second exactly one window after
\* the first, and a caller in between was blocked by the cooldown.
C32_Witness ==
    /\ Len(authCalls) = 2
    /\ authCalls[1].task # authCalls[2].task
    /\ authCalls[2].at - authCalls[1].at = RATE_LIMIT_COOLDOWN
    /\ \E b \in Tasks : Failed(b) /\ RateLimited(b) /\ calls[b] = << >>

\* ------------------------------------------------------ concurrent upserts
\* Tasks a and b are upserts that were in flight at once: b began before a settled.
Concurrent(a, b) ==
    /\ a < b
    /\ IsUpsert(a) /\ IsUpsert(b)
    /\ Began(b)
    /\ a \notin prior[b]

\* Tasks a and b are two concurrent upserts of records with one email, the only calls
\* that bear it, both ended in success with data in every answer.
TwoConcurrentUpserts(a, b) ==
    /\ Concurrent(a, b)
    /\ local[a].src.email = local[b].src.email
    /\ local[a].src.email # ""
    /\ Succeeded(a) /\ Succeeded(b)
    /\ DataInEveryAnswer(a) /\ DataInEveryAnswer(b)
    /\ \A c \in Tasks \ {a, b} : Began(c) => local[c].src.email # local[a].src.email

\* C33: from a destination holding no contact for an email, two concurrent
\* createBiginContact calls for records with that email leave exactly one contact with
\* the email: one of the calls created it and the other updated it.
C33_ConcurrentSameEmailOneContact ==
    \A a, b \in Tasks :
        TwoConcurrentUpserts(a, b)
        => /\ Cardinality(ContactsWithEmail(local[a].src.email)) = 1
           /\ ret[a].isUpdate # ret[b].isUpdate

\* Tasks a and b are two concurrent upserts of contacts that name one account, the only
\* calls that name it, both ended in success with data in every answer.
TwoConcurrentUpsertsOfAccount(a, b) ==
    /\ Concurrent(a, b)
    /\ local[a].src.organization_name = local[b].src.organization_name
    /\ local[a].src.organization_name # ""
    /\ Succeeded(a) /\ Succeeded(b)
    /\ DataInEveryAnswer(a) /\ DataInEveryAnswer(b)
    /\ \A c \in Tasks \ {a, b} :
          Began(c) => local[c].src.organization_name # local[a].src.organization_name

\* C34: from a destination holding no account of a name, two concurrent
\* createBiginContact calls whose contacts name that account leave exactly one account
\* of the name, and the contact data of both calls refers to its id.
C34_ConcurrentSameAccountOneAccount ==
    \A a, b \in Tasks :
        TwoConcurrentUpsertsOfAccount(a, b)
        => LET named == AccountsNamed(local[a].src.organization_name)
           IN /\ Cardinality(named) = 1
              /\ \A acct \in named :
                    /\ local[a].contactData.Account_Name = AccountById(acct.id)
                    /\ local[b].contactData.Account_Name = AccountById(acct.id)

\* ------------------------------------------------------------ failed upserts
\* The requests of task t that changed the destination: creations and updates that
\* the destination answered with success.
AppliedWrites(t) ==
    {k \in CallsOf(t, {"acctCreate", "update", "create"}) : calls[t][k].res = "ok"}

\* C35: a createBiginContact call that ended in failure has left the destination as it
\* was: none of its requests created an account or created or updated a contact, and
\* the destination holds no record the call created.
C35_FailedUpsertLeavesNoTrace ==
    \A t \in Tasks :
        (IsUpsert(t) /\ Failed(t))
        => /\ AppliedWrites(t) = {}
           /\ \A a \in accounts : a.id # NewAccountId(t)
           /\ \A c \in contacts : c.id # NewContactId(t)

\* ------------------------------------------------------------- bearer tokens
\* Task t sends a request to the destination in this step (first or as a retry).
SendsDestinationRequest(t) ==
    /\ Len(calls'[t]) > Len(calls[t])
    /\ calls'[t][Len(calls'[t])].op # "auth"

\* C36: every request sent to the destination, the account list and account creation
\* and their retries after a 401 included, carries the access token the token manager
\* holds when the request is sent, never one that a successful refresh has replaced.
C36_RequestsCarryCurrentToken ==
    [][\A t \in Tasks :
          SendsDestinationRequest(t)
             => calls'[t][Len(calls'[t])].token = biginAccessToken']_vars

\* ------------------------------------------------- token failure in an upsert
\* The refreshBiginToken call at the start of upsert t has failed: it threw before
\* sending anything, or its request to the auth endpoint was answered without a token.
TokenFailedAtStart(t) ==
    /\ IsUpsert(t)
    /\ Began(t)
    /\ \/ calls[t] = << >>
       \/ calls[t][1].op = "auth" /\ calls[t][1].res \notin {"pending", "ok"}

\* The error refreshBiginToken threw to upsert t.
TokenError(t) ==
    IF calls[t] = << >>
    THEN Err(IF hasCredentials THEN MsgRateLimit ELSE MsgNoCredentials, 0)
    ELSE LET r == calls[t][1].res
         IN IF r = "network" THEN Err(MsgNetwork, 0)
            ELSE IF r = "notoken" THEN Err(MsgRefreshFailed, 0)
            ELSE IF r = "throttle" THEN Err(ThrottlePayload.error_description, 0)
            ELSE IF r = "invalid" THEN Err(InvalidPayload.error, 0)
            ELSE Err(MsgHttp400, 0)

\* Upsert t has failed with the token manager's error and has sent nothing to the
\* destination.
AbortedByTokenFailure(t) ==
    /\ Failed(t)
    /\ ret[t].error = TokenError(t)
    /\ CallsOf(t, DestinationOps) = {}
    /\ Len(calls[t]) <= 1

\* C37: when refreshBiginToken fails at the start of createBiginContact, blocked by the
\* cooldown (no valid token, window not elapsed) or with its refresh request failed,
\* the upsert fails with that error and sends no request to the destination: no account
\* or contact search, creation or update.
C37_TokenFailureAbortsUpsert ==
    [][\A t \in Tasks :
          /\ (Begins(t) /\ local'[t].kind = "upsert" /\ NoValidToken /\ ~CooldownElapsed)
                => calls'[t] = << >>
          /\ TokenFailedAtStart(t)' => AbortedByTokenFailure(t)']_vars

\* One upsert was blocked by the cooldown while the refresh of another was in flight,
\* and that refresh failed too.
C37_Witness ==
    \E a, b \in Tasks :
        /\ a # b
        /\ TokenFailedAtStart(a) /\ calls[a] # << >> /\ Failed(a)
        /\ TokenFailedAtStart(b) /\ calls[b] = << >> /\ RateLimited(b)
        /\ local[b].src.email # ""

\* ------------------------------------------------------- the cache timestamp
\* Task t's getBiginContacts call, beginning in this step, is served by the freshness
\* test of lines 240-243.
ReturnedAsFresh(t) ==
    /\ BeginsContacts(t)
    /\ ~local'[t].forceRefresh
    /\ biginContacts.cached
    /\ now - lastContactsFetch < 5 * 60 * 1000

\* C38: the cache's timestamp lastContactsFetch changes only in a step in which a
\* successful fetch replaces the cached records, so the records a call returns as
\* fresh were fetched less than 5 minutes before it.
C38_TimestampAdvancesWithRecords ==
    [][/\ lastContactsFetch' # lastContactsFetch => \E t \in Tasks : FetchSucceeds(t)
       /\ \A t \in Tasks : ReturnedAsFresh(t) => now - FetchedAt < 5 * 60 * 1000]_vars

\* --------------------------------------------------- update without creation
\* The email search of task t listed at least one contact.
SearchFoundContact(t) ==
    \E k \in CallsOf(t, {"contactSearch"}) :
        calls[t][k].res = "ok" /\ calls[t][k].data # << >>

\* C39: when the email search of createBiginContact lists an existing contact, the call
\* sends no request that creates a contact, whatever the answer to its update is.
C39_NoCreateAfterMatch ==
    \A t \in Tasks :
        (IsUpsert(t) /\ SearchFoundContact(t)) => CallsOf(t, {"create"}) = {}
====
